---- MODULE Spec2Model ----
(***************************************************************************)
(* Verification model of attpc_merger: the k-way merger of GET frames, the *)
(* EventBuilder, the GET loop of process_run and the FRIB builder.         *)
(***************************************************************************)
EXTENDS Integers, Sequences, FiniteSets, TLC

(* ------------------------------ bounds --------------------------------- *)
NStacks == 2          \* number of AsAd stacks of a run
MaxStackLen == 2      \* frames per AsAd stack
MaxEventId == 2       \* event ids of the frames of a run are 1..MaxEventId
MaxCalls == 5         \* append_frame calls made on a free-standing EventBuilder
MaxFrameId == 3       \* event ids of the frames passed to it are 1..MaxFrameId
MaxItems == 4         \* ring items in the evt stack of a run
MaxThreads == 3       \* Config.n_threads is in 1..MaxThreads
MaxRuns == 4          \* at most MaxRuns run numbers in first..=last
MaxFrames == 100      \* frames of the one long AsAd stack of a run
MaxCopyFiles == 2     \* files a FileCopier has to copy
MaxFileSize == 2      \* size in bytes of a file to copy
MaxBlocks == 2        \* group blocks in the buffer given to the SIS3300 decoder
MaxSamples == 2       \* sample count of a group block
MaxBufLen == 30       \* length in bytes of a raw ring item buffer
MaxWords == 5         \* 16-bit words in the bytes of a ring item
MaxRows == 2          \* rows of a channel map CSV after its header
MaxData == 3          \* samples in the frames given to an EventBuilder
MaxFiles == 2         \* files in the directory of a FRIBDAQ run
MaxChunks == 3        \* items held by the files of the directory, in all
MaxReads == 6         \* get_next_ring_item calls made on an EvtStack
MaxSubset == 3        \* runs in the subset given to process_subset
MaxWorkers == 2       \* n_threads and number of runs of a configuration of the GUI
MaxClicks == 2        \* clicks on Run
MaxSends == 2         \* messages sent by the workers, in all

EventIds == 1..MaxEventId
FrameIds == 1..MaxFrameId
StackIds == 1..NStacks

(* ------------------------------ helpers -------------------------------- *)
\* Option<T>: None is the empty sequence, Some(x) the one-element sequence
None == <<>>
Some(x) == <<x>>
IsSome(o) == o /= <<>>
Unwrap(o) == o[1]

\* all sequences over S of length at most n
SeqUpTo(S, n) == UNION {[1..k -> S] : k \in 0..n}

\* a GrawFrame: its header's event_id, the AsAd stack it was read from and
\* its position in that stack (standing for the rest of the frame)
\* a GrawFrame with a given header.frame_size
\* a GrawFrame with the samples of its body
DataFrame(id, s, n, size, data) ==
  [event_id |-> id, stack |-> s, n |-> n, frame_size |-> size, data |-> data]
SizedFrame(id, s, n, size) == DataFrame(id, s, n, size, <<>>)
Frame(id, s, n) == SizedFrame(id, s, n, 1)

\* the frames of AsAd stack s, given the event ids found in its files
StackOf(s, ids) == [k \in 1..Len(ids) |-> Frame(ids[k], s, k)]

NonDecreasing(ids) == \A i \in 1..Len(ids) : \A j \in i..Len(ids) : ids[i] <= ids[j]
StrictlyAscending(ids) == \A i \in 1..Len(ids) : \A j \in (i+1)..Len(ids) : ids[i] < ids[j]
IdsOf(frames) == [k \in 1..Len(frames) |-> frames[k].event_id]

RECURSIVE SelectFrames(_, _)
SelectFrames(frames, id) ==
  IF frames = <<>> THEN <<>>
  ELSE IF Head(frames).event_id = id
       THEN <<Head(frames)>> \o SelectFrames(Tail(frames), id)
       ELSE SelectFrames(Tail(frames), id)

RECURSIVE FramesOfStack(_, _)
FramesOfStack(frames, s) ==
  IF frames = <<>> THEN <<>>
  ELSE IF Head(frames).stack = s
       THEN <<Head(frames)>> \o FramesOfStack(Tail(frames), s)
       ELSE FramesOfStack(Tail(frames), s)

RECURSIVE SumLen(_, _)
SumLen(st, S) ==
  IF S = {} THEN 0
  ELSE LET s == CHOOSE x \in S : TRUE IN Len(st[s]) + SumLen(st, S \ {s})

(* ------------------------------ state ---------------------------------- *)
VARIABLES
  stacks0,           \* the frames of each AsAd stack when the run is opened
  stacks,            \* Merger: the frames each AsAd stack still holds
  heap,              \* Merger: the lookahead entries <<event_id, stack>>
  emitted,           \* frames returned by get_next_frame so far
  merger_ret,        \* last value returned by get_next_frame
  current_event_id,  \* EventBuilder.current_event_id
  frame_stack,       \* EventBuilder.frame_stack
  fed,               \* frames passed to append_frame so far
  events,            \* events returned by append_frame so far
  op,                \* last EventBuilder operation
  arg,               \* frame passed to the last append_frame
  ret,               \* value returned by the last EventBuilder operation
  pc,                \* process_run: "merging", "done" or "failed"
  event_counter,     \* process_run: event_counter
  written,           \* HDFWriter: the write_get_event calls made
  copy_meta,         \* FileCopier: the sizes of the files to copy, if any
  copy_pos,          \* process_run: number of files copied so far
  copy_count,        \* process_run: copy_count
  total_data_size,   \* Merger: total size in bytes of the run's GRAW files
  count,             \* process_run: count
  progress,          \* process_run: progress
  sent,              \* the WorkerStatus messages sent on tx so far
  writer,            \* HDFWriter: last_get_event, last_frib_event, ...
  closed,            \* what HDFWriter::close wrote and logged, once called
  sis,               \* SIS3300Item::extract_data: the item, the cursor, the loop
  evt_items,         \* EvtStack: the ring items of the run's evt files
  frib_pos,          \* EvtStack: number of ring items taken so far
  run_info,          \* process_evt_data: run_info
  scaler_counter,    \* process_evt_data: scaler_counter
  frib_event_counter,\* process_evt_data: event_counter
  frib_pc,           \* process_evt_data: "running", "done", "failed" or "panicked"
  decoded,           \* positions of the ring items given to a decoder
  frib_writes,       \* HDFWriter: the write_frib_* calls made
  config,            \* Config: first_run_number, last_run_number, n_threads, online
  overflow_checks,   \* build profile: are integer overflows checked (debug)
  run_dirs,          \* for each run number: "missing", "ok" or "bad" GET data
  subsets,           \* value returned by the last create_subsets call
  workers,           \* MergerApp.workers with what each thread has done
  app_pc,            \* MergerApp: "idle", "running", "joined" or "panicked"
  threads,           \* what each spawned process_subset thread has done
  show_error_window, \* MergerApp.show_error_window
  raw,               \* RingItem::try_from: the raw buffer and the value returned
  ring_item,         \* RingItem: bytes, before and after remove_boundaries
  channel_map,       \* GetChannelMap: the rows of the CSV and the value of new
  pad_map,           \* EventBuilder.pad_map: the HardwareID of each uuid
  disk,              \* the files of a FRIBDAQ run directory, by rank of their name
  evt_stack,         \* EvtStack: file_stack, active_file, is_ended
  stack_pc,          \* "idle", "new", "open", "failed", "panicked"
  returned,          \* what the get_next_ring_item calls returned, in order
  subset_worker,     \* process_subset: its config and subset, the loop, the runs done
  gui,               \* MergerApp: config, workers, worker_statuses, place in update
  gui_threads,       \* the worker threads spawned by the GUI
  worker_channel     \* the mpsc channel of WorkerStatus messages

mergerVars == <<stacks0, stacks, heap, emitted, merger_ret>>
evbVars == <<current_event_id, frame_stack, fed, events, op, arg, ret>>
progVars == <<copy_meta, copy_pos, copy_count, total_data_size, count, progress, sent>>
runVars == <<pc, event_counter, written, progVars>>
fribVars == <<evt_items, frib_pos, run_info, scaler_counter, frib_event_counter,
              frib_pc, decoded, frib_writes>>
poolVars == <<config, overflow_checks, run_dirs, subsets, workers, app_pc,
              threads, show_error_window>>
hdfVars == <<writer, closed>>
ringVars == <<raw, ring_item>>
stackVars == <<disk, evt_stack, stack_pc, returned>>
guiVars == <<gui, gui_threads, worker_channel>>
restVars == <<stackVars, subset_worker, guiVars>>
auxVars == <<ringVars, channel_map, pad_map, restVars>>
vars == <<mergerVars, evbVars, runVars, fribVars, poolVars, hdfVars, sis, auxVars>>

(* ------------------- Merger (k-way, chronological) --------------------- *)
\* Initialization: peek one frame per non-empty stack and push its event_id
HeapInit(st) == {<<Head(st[s]).event_id, s>> : s \in {x \in StackIds : st[x] /= <<>>}}

\* a merger that pops any entry of the heap
MinEntries_AnyEntry(h) == h

\* the heap entries that may be popped: those with the smallest event_id
\* (ties between stacks are broken in any order)
MinEntries(h) == {e \in h : \A e2 \in h : e[1] <= e2[1]}

\* pop a full frame from the stack of the popped entry
PopFrame(st, e) == [st EXCEPT ![e[2]] = Tail(@)]

\* a merger that never pushes the stack's next event_id back
PushBack_NoPeek(h, st, e) == h \ {e}

\* peek that stack's new next event_id and push it back, or do not push if
\* the stack is now exhausted
PushBack(h, st, e) ==
  (h \ {e}) \cup (IF st[e[2]] /= <<>> THEN {<<Head(st[e[2]]).event_id, e[2]>>} ELSE {})

(* ------------------------------ results -------------------------------- *)
NoError == <<>>
OkR(v) == [tag |-> "Ok", val |-> v, err |-> NoError]
ErrR(e) == [tag |-> "Err", val |-> None, err |-> e]
MismatchedEventID(f, c) == <<"MismatchedEventID", f, c>>
EventOutOfOrder(f, c) == <<"EventOutOfOrder", f, c>>

(* ---------------------------- GetChannelMap ---------------------------- *)
MIN_ENTRIES_PER_LINE == 4
PAD_ENTRIES_PER_LINE == 5
SI_ENTRIES_PER_LINE == 7

BadFileFormat == <<"BadFileFormat">>
ParsingError == <<"ParsingError">>

\* Detector::Pad(p) and Detector::Silicon(SiliconID) of an upstream front channel
Pad(p) == [kind |-> "Pad", id |-> p]
Silicon(channel) == [kind |-> "Silicon", id |-> channel]

\* HardwareID::new
HardwareID(cobo_id, asad_id, aget_id, channel, detector) ==
  [cobo_id |-> cobo_id, asad_id |-> asad_id, aget_id |-> aget_id,
   channel |-> channel, detector |-> detector]

\* generate_uuid, in u64
generate_uuid(cobo_id, asad_id, aget_id, channel_id) ==
  channel_id + aget_id * 100 + asad_id * 10000 + cobo_id * 1000000

\* a line of the CSV: the number of its entries, the numbers written in the
\* first four and the number written in the entry of the pad or of the
\* silicon channel
Row(n, cobo, asad, aget, channel, det) ==
  [entries |-> n, cobo |-> cobo, asad |-> asad, aget |-> aget,
   channel |-> channel, det |-> det]

\* str::parse::<u8>
ParsesAsU8(x) == x \in 0..255

\* the detector a row of 5 or 7 entries describes
DetectorOf(row) ==
  IF row.entries = PAD_ENTRIES_PER_LINE THEN Pad(row.det) ELSE Silicon(row.det)

\* the body of the loop over the lines of GetChannelMap::new, from line k on
RECURSIVE LoadRows(_, _, _)
LoadRows(rows, k, map) ==
  IF k > Len(rows) THEN OkR(map)
  ELSE LET row == rows[k]
       IN IF row.entries < PAD_ENTRIES_PER_LINE THEN ErrR(BadFileFormat)
          ELSE IF ~(/\ ParsesAsU8(row.cobo) /\ ParsesAsU8(row.asad)
                    /\ ParsesAsU8(row.aget) /\ ParsesAsU8(row.channel))
          THEN ErrR(ParsingError)
          ELSE IF row.entries \notin {PAD_ENTRIES_PER_LINE, SI_ENTRIES_PER_LINE}
          THEN ErrR(BadFileFormat)
          ELSE LET uuid == generate_uuid(row.cobo, row.asad, row.aget, row.channel)
                   hw_id == HardwareID(row.cobo, row.asad, row.aget, row.channel,
                                       DetectorOf(row))
               IN LoadRows(rows, k + 1,
                    [u \in DOMAIN map \cup {uuid} |-> IF u = uuid THEN hw_id ELSE map[u]])

\* GetChannelMap::get_hardware_id
get_hardware_id(map, cobo_id, asad_id, aget_id, channel_id) ==
  LET uuid == generate_uuid(cobo_id, asad_id, aget_id, channel_id)
  IN IF uuid \in DOMAIN map THEN Some(map[uuid]) ELSE None

(* ------------------------------- Event --------------------------------- *)
\* the CoBo whose frames carry the timestamp of the other DAQ
COBO_WITH_TIMESTAMP == 10
\* header.cobo_id and header.event_time of a frame: the AsAd stack s is read
\* from CoBo s - 1, and the frames of an event carry the time of the event
FrameCoboId(frame) == frame.stack - 1
FrameEventTime(frame) == 100 * frame.event_id

\* header.asad_id of a frame: the AsAd stacks of the model are the AsAd 0 of
\* their CoBo
FrameAsadId(frame) == 0

NUMBER_OF_TIME_BUCKETS == 512
FPN_CHANNELS == {11, 22, 45, 56}

\* a sample of the body of a frame
Datum(aget_id, channel, time_bucket_id, sample) ==
  [aget_id |-> aget_id, channel |-> channel, time_bucket_id |-> time_bucket_id,
   sample |-> sample]

\* Array1::<i16>::zeros(NUMBER_OF_TIME_BUCKETS): the length of the trace and
\* the entries assigned since, all others being 0
Zeroes(len) == [len |-> len, at |-> <<>>]
TraceAt(trace, t) == IF t \in DOMAIN trace.at THEN trace.at[t] ELSE 0
TraceSet(trace, t, sample) ==
  [trace EXCEPT !.at = [b \in DOMAIN trace.at \cup {t} |->
                          IF b = t THEN sample ELSE trace.at[b]]]

EmptyEvent ==
  [event_id |-> 0, nframes |-> 0, frames |-> <<>>, timestamp |-> 0, timestampother |-> 0,
   traces |-> <<>>]

\* Event::append_frame, the timestamps
EventTimes(event, frame) ==
  IF FrameCoboId(frame) = COBO_WITH_TIMESTAMP
  THEN [event EXCEPT !.timestampother = FrameEventTime(frame)]
  ELSE [event EXCEPT !.timestamp = FrameEventTime(frame)]

\* Event::append_frame, one turn of the loop over frame.data
PutDatum(traces, frame, datum) ==
  IF datum.channel \in FPN_CHANNELS THEN traces
  ELSE LET hw == get_hardware_id(pad_map, FrameCoboId(frame), FrameAsadId(frame),
                                 datum.aget_id, datum.channel)
       IN IF hw = None THEN traces
          ELSE LET hw_id == Unwrap(hw)
                   trace == IF hw_id \in DOMAIN traces THEN traces[hw_id]
                            ELSE Zeroes(NUMBER_OF_TIME_BUCKETS)
               IN [h \in DOMAIN traces \cup {hw_id} |->
                     IF h = hw_id THEN TraceSet(trace, datum.time_bucket_id, datum.sample)
                     ELSE traces[h]]

\* Event::append_frame, the loop over frame.data
RECURSIVE PutData(_, _, _)
PutData(traces, frame, data) ==
  IF data = <<>> THEN traces
  ELSE PutData(PutDatum(traces, frame, Head(data)), frame, Tail(data))

\* Event::append_frame: the first frame gives the event its id, a later
\* frame with another id fails the construction
EventAppendFrame(event, frame) ==
  IF event.nframes = 0
  THEN OkR([EventTimes(event, frame) EXCEPT !.event_id = frame.event_id,
                                            !.nframes = 1, !.frames = <<frame>>,
                                            !.traces = PutData(@, frame, frame.data)])
  ELSE IF event.event_id /= frame.event_id
       THEN ErrR(MismatchedEventID(frame.event_id, event.event_id))
       ELSE OkR([EventTimes(event, frame) EXCEPT !.nframes = @ + 1,
                                                 !.frames = Append(@, frame),
                                                 !.traces = PutData(@, frame, frame.data)])

RECURSIVE EventWalk(_, _)
EventWalk(event, frames) ==
  IF frames = <<>> THEN OkR(event)
  ELSE LET r == EventAppendFrame(event, Head(frames))
       IN IF r.tag = "Err" THEN r ELSE EventWalk(r.val, Tail(frames))

\* Event::new
EventNew(frames) == EventWalk(EmptyEvent, frames)

(* ---------------------------- EventBuilder ----------------------------- *)
\* the four branches of EventBuilder::append_frame, each giving the builder's
\* new state and the value returned
\* a builder that reports the two ids of the error in the other order
FrameFromPast_Swapped(cur, fs, frame) ==
  [cur |-> cur, fs |-> fs,
   ret |-> ErrR(EventOutOfOrder(Unwrap(cur), frame.event_id))]

\* a builder that keeps the frame it rejects
FrameFromPast_Pushes(cur, fs, frame) ==
  [cur |-> cur, fs |-> Append(fs, frame),
   ret |-> ErrR(EventOutOfOrder(frame.event_id, Unwrap(cur)))]

\* a frame from a past event
FrameFromPast(cur, fs, frame) ==
  [cur |-> cur, fs |-> fs,
   ret |-> ErrR(EventOutOfOrder(frame.event_id, Unwrap(cur)))]

\* a builder that emits the event but keeps the old current_event_id
FrameFromNext_KeepsId(cur, fs, frame) ==
  LET r == EventNew(fs) IN
  IF r.tag = "Err"
  THEN [cur |-> cur, fs |-> fs, ret |-> r]
  ELSE [cur |-> cur, fs |-> <<frame>>, ret |-> OkR(Some(r.val))]

\* a builder that emits the event but does not clear frame_stack
FrameFromNext_NoClear(cur, fs, frame) ==
  LET r == EventNew(fs) IN
  IF r.tag = "Err"
  THEN [cur |-> cur, fs |-> fs, ret |-> r]
  ELSE [cur |-> Some(frame.event_id), fs |-> Append(fs, frame),
        ret |-> OkR(Some(r.val))]

\* a frame from the next event: emit the built event and start a new one
FrameFromNext(cur, fs, frame) ==
  LET r == EventNew(fs) IN
  IF r.tag = "Err"
  THEN [cur |-> cur, fs |-> fs, ret |-> r]
  ELSE [cur |-> Some(frame.event_id), fs |-> <<frame>>, ret |-> OkR(Some(r.val))]

\* a builder that does not push a frame of the current event
FrameForCurrent_Drops(cur, fs, frame) ==
  [cur |-> cur, fs |-> fs, ret |-> OkR(None)]

\* a frame for this event
FrameForCurrent(cur, fs, frame) ==
  [cur |-> cur, fs |-> Append(fs, frame), ret |-> OkR(None)]

\* the first frame ever
FirstFrame(cur, fs, frame) ==
  [cur |-> Some(frame.event_id), fs |-> Append(fs, frame), ret |-> OkR(None)]

\* EventBuilder::append_frame
AppendFrame(cur, fs, frame) ==
  IF IsSome(cur)
  THEN IF frame.event_id < Unwrap(cur) THEN FrameFromPast(cur, fs, frame)
       ELSE IF frame.event_id > Unwrap(cur) THEN FrameFromNext(cur, fs, frame)
       ELSE FrameForCurrent(cur, fs, frame)
  ELSE FirstFrame(cur, fs, frame)

\* a flush that needs more than one frame on the stack
FlushFinalEvent_MoreThanOne(fs) ==
  IF Len(fs) > 1
  THEN LET r == EventNew(fs) IN IF r.tag = "Ok" THEN Some(r.val) ELSE None
  ELSE None

\* EventBuilder::flush_final_event: the Option<Event> returned
FlushFinalEvent(fs) ==
  IF fs /= <<>>
  THEN LET r == EventNew(fs) IN IF r.tag = "Ok" THEN Some(r.val) ELSE None
  ELSE None

\* the events a call's return value adds to those seen so far
Emitted(r) == IF r.tag = "Ok" /\ IsSome(r.val) THEN <<Unwrap(r.val)>> ELSE <<>>

(* ------------------------- initial conditions -------------------------- *)
\* every content of the AsAd stacks within the bounds
AllStacks ==
  {[s \in StackIds |-> StackOf(s, ids[s])] :
     ids \in [StackIds -> SeqUpTo(EventIds, MaxStackLen)]}

NoStacks == [s \in StackIds |-> <<>>]
NotCalled == [called |-> FALSE, val |-> None]

\* Merger::new over the AsAd stacks st
MergerNew(st) ==
  /\ stacks0 = st
  /\ stacks = st
  /\ heap = HeapInit(st)
  /\ emitted = <<>>
  /\ merger_ret = NotCalled

\* EventBuilder::new
EventBuilderNew ==
  /\ current_event_id = None
  /\ frame_stack = <<>>
  /\ fed = <<>>
  /\ events = <<>>
  /\ op = "new"
  /\ arg = Frame(0, 0, 0)
  /\ ret = OkR(None)

\* size in bytes of one unit of header.frame_size (256 bits)
SIZE_UNIT == 32
FrameBytes(frame) == frame.frame_size * SIZE_UNIT
RECURSIVE SumBytes(_)
SumBytes(frames) ==
  IF frames = <<>> THEN 0 ELSE FrameBytes(Head(frames)) + SumBytes(Tail(frames))
RECURSIVE StacksBytes(_, _)
StacksBytes(st, S) ==
  IF S = {} THEN 0
  ELSE LET s == CHOOSE x \in S : TRUE IN SumBytes(st[s]) + StacksBytes(st, S \ {s})

\* an f32 in 0.0..2.0 is held as a multiple of 2^-30: F32One is 1.0 and
\* FlushFrac is the f32 nearest to 0.01 (0x3C23D70A); a quotient of two
\* integers below 2^24 is held as num/den, and 0/0 is NaN
F32One == 1073741824
FlushFrac == 10737418
F32(units) == [nan |-> FALSE, num |-> units, den |-> F32One]
F32Div(a, b) == IF b = 0 THEN [nan |-> TRUE, num |-> 0, den |-> 0]
                ELSE [nan |-> FALSE, num |-> a, den |-> b]
IsZero(x) == ~x.nan /\ x.num = 0
IsOne(x) == ~x.nan /\ x.num = x.den
InUnitInterval(x) == ~x.nan /\ 0 <= x.num /\ x.num <= x.den

\* f32 addition of two such multiples: the exact sum rounded to a 24-bit
\* significand, ties to even
RECURSIVE Ulp(_)
Ulp(x) == IF x < 16777216 THEN 1 ELSE 2 * Ulp(x \div 2)
F32Round(x) ==
  LET u == Ulp(x)
      q == x \div u
      r == x % u
  IN IF 2 * r < u THEN q * u
     ELSE IF 2 * r > u THEN (q + 1) * u
     ELSE IF q % 2 = 0 THEN q * u ELSE (q + 1) * u
F32Add(a, b) == F32Round(a + b)

\* (total as f64 * flush_frac as f64) as u64: the product of total and
\* FlushFrac / 2^30 is exact in f64 and is truncated; computed in 15-bit
\* limbs
FlushVal(total) ==
  LET B == 32768
      m1 == FlushFrac \div B
      m0 == FlushFrac % B
      t1 == total \div B
      t0 == total % B
      x == t1 * m0 + t0 * m1
  IN t1 * m1 + (x \div B) + (((x % B) * B + t0 * m0) \div (B * B))

WorkerStatus(p, color) == [progress |-> p, color |-> color]

\* a loop that sends a message as soon as count reaches flush_val
ProgressStep_AtLeast(cnt, prog, bytes, flush_val) ==
  IF cnt + bytes >= flush_val
  THEN [count |-> 0, progress |-> F32Add(prog, FlushFrac), send |-> TRUE]
  ELSE [count |-> cnt + bytes, progress |-> prog, send |-> FALSE]

\* a loop that sends a message without advancing progress
ProgressStep_NoAdvance(cnt, prog, bytes, flush_val) ==
  IF cnt + bytes > flush_val
  THEN [count |-> 0, progress |-> prog, send |-> TRUE]
  ELSE [count |-> cnt + bytes, progress |-> prog, send |-> FALSE]

\* the progress bookkeeping of one turn of the GET loop
ProgressStep(cnt, prog, bytes, flush_val) ==
  IF cnt + bytes > flush_val
  THEN [count |-> 0, progress |-> F32Add(prog, FlushFrac), send |-> TRUE]
  ELSE [count |-> cnt + bytes, progress |-> prog, send |-> FALSE]

RECURSIVE SumSizes(_)
SumSizes(sizes) == IF sizes = <<>> THEN 0 ELSE Head(sizes) + SumSizes(Tail(sizes))

\* process_run called, nothing done yet
RunCalled(cm, total) ==
  /\ pc = "start"
  /\ event_counter = 0
  /\ written = <<>>
  /\ copy_meta = cm
  /\ copy_pos = 0
  /\ copy_count = 0
  /\ total_data_size = total
  /\ count = 0
  /\ progress = 0
  /\ sent = <<>>

\* process_run before the GET loop, no copy asked for
RunStart ==
  /\ pc = "merging"
  /\ event_counter = 0
  /\ written = <<>>
  /\ copy_meta = None
  /\ copy_pos = 0
  /\ copy_count = 0
  /\ total_data_size = StacksBytes(stacks0, StackIds)
  /\ count = 0
  /\ progress = 0
  /\ sent = <<WorkerStatus(F32(0), "CYAN")>>

RunIdle ==
  /\ pc = "idle"
  /\ event_counter = 0
  /\ written = <<>>
  /\ copy_meta = None
  /\ copy_pos = 0
  /\ copy_count = 0
  /\ total_data_size = 0
  /\ count = 0
  /\ progress = 0
  /\ sent = <<>>

(* ------------------------------ Merger --------------------------------- *)
\* Merger::get_next_frame with a non-empty heap
MergerGetNextFrame ==
  /\ heap /= {}
  /\ \E e \in MinEntries(heap) :
       LET frame == Head(stacks[e[2]])
           st == PopFrame(stacks, e)
       IN /\ stacks' = st
          /\ heap' = PushBack(heap, st, e)
          /\ emitted' = Append(emitted, frame)
          /\ merger_ret' = [called |-> TRUE, val |-> Some(frame)]
  /\ UNCHANGED <<stacks0, evbVars, runVars, fribVars, poolVars, hdfVars, sis, auxVars>>

\* Merger::get_next_frame with an empty heap
MergerGetNone ==
  /\ heap = {}
  /\ merger_ret' = [called |-> TRUE, val |-> None]
  /\ UNCHANGED <<stacks0, stacks, heap, emitted, evbVars, runVars, fribVars, poolVars, hdfVars, sis, auxVars>>

(* --------------------- a free-standing EventBuilder -------------------- *)
\* append_frame called with any frame (the builder does not look at the
\* stack a frame was read from)
EvbAppendFrame ==
  /\ Len(fed) < MaxCalls
  /\ \E id \in FrameIds :
       LET frame == Frame(id, 1, Len(fed) + 1)
           r == AppendFrame(current_event_id, frame_stack, frame)
       IN /\ current_event_id' = r.cur
          /\ frame_stack' = r.fs
          /\ ret' = r.ret
          /\ events' = events \o Emitted(r.ret)
          /\ fed' = Append(fed, frame)
          /\ arg' = frame
          /\ op' = "append_frame"
  /\ UNCHANGED <<mergerVars, runVars, fribVars, poolVars, hdfVars, sis, auxVars>>

\* the number of samples in the frames given so far
RECURSIVE DataFed(_)
DataFed(frames) ==
  IF frames = <<>> THEN 0 ELSE Len(Head(frames).data) + DataFed(Tail(frames))

\* the samples a frame may hold: AGET 0 or 1, channel 0 or the fixed-pattern
\* noise channel 11, the first or the last time bucket; the amplitudes of
\* the samples given to a builder are 1, 2, 3, ... in the order given
Places == {Datum(g, c, t, 0) : g \in {0, 1}, c \in {0, 11}, t \in {0, NUMBER_OF_TIME_BUCKETS - 1}}
Sampled(places, before) ==
  [k \in 1..Len(places) |-> [places[k] EXCEPT !.sample = before + k]]

\* append_frame called with a frame of CoBo 0 that holds samples
EvbAppendData ==
  /\ DataFed(fed) < MaxData
  /\ \E id \in {1, 2}, places \in SeqUpTo(Places, MaxData - DataFed(fed)) \ {<<>>} :
       LET frame == DataFrame(id, 1, Len(fed) + 1, 1, Sampled(places, DataFed(fed)))
           r == AppendFrame(current_event_id, frame_stack, frame)
       IN /\ current_event_id' = r.cur
          /\ frame_stack' = r.fs
          /\ ret' = r.ret
          /\ events' = events \o Emitted(r.ret)
          /\ fed' = Append(fed, frame)
          /\ arg' = frame
          /\ op' = "append_frame"
  /\ UNCHANGED <<mergerVars, runVars, fribVars, poolVars, hdfVars, sis, auxVars>>

\* flush_final_event called
EvbFlushFinalEvent ==
  /\ ret' = OkR(FlushFinalEvent(frame_stack))
  /\ op' = "flush_final_event"
  /\ UNCHANGED <<current_event_id, frame_stack, fed, events, arg>>
  /\ UNCHANGED <<mergerVars, runVars, fribVars, poolVars, hdfVars, sis, auxVars>>

(* ------------------------------ HDFWriter ------------------------------ *)
\* all event counters start from 0
START_EVENT_NUMBER == 0

\* HDFWriter::new
HdfNew ==
  [last_get_event |-> 0, last_frib_event |-> 0, last_scaler_event |-> 0,
   first_timestamp |-> 0, last_timestamp |-> 0]

\* write_get_event: the bookkeeping of the first and last event
HdfWriteGetEvent(h, event, counter) ==
  LET h1 == IF counter = START_EVENT_NUMBER
            THEN [h EXCEPT !.first_timestamp = event.timestamp] ELSE h
  IN IF counter > h1.last_get_event
     THEN [h1 EXCEPT !.last_get_event = counter, !.last_timestamp = event.timestamp]
     ELSE h1

\* write_frib_scalers and write_frib_physics: the last counter seen
HdfWriteFribScalers(h, counter) ==
  IF counter > h.last_scaler_event THEN [h EXCEPT !.last_scaler_event = counter] ELSE h
HdfWriteFribPhysics(h, counter) ==
  IF counter > h.last_frib_event THEN [h EXCEPT !.last_frib_event = counter] ELSE h

\* close: the attributes of the events group and whether the warning that
\* FRIB and GET do not agree on the number of events was logged
HdfClose(h) ==
  [min_event |-> START_EVENT_NUMBER,
   min_get_ts |-> h.first_timestamp,
   warned |-> h.last_frib_event /= h.last_get_event,
   max_event |-> h.last_get_event,
   max_get_ts |-> h.last_timestamp,
   scalers_max_event |-> h.last_scaler_event]

HdfOpen ==
  /\ writer = HdfNew
  /\ closed = None

(* ----------------------- process_run: the GET loop --------------------- *)
\* HDFWriter::write_get_event(event, counter)
WriteGetEvent(w, event, counter) == Append(w, [counter |-> counter, event |-> event])

\* a loop that forgets to advance event_counter
CounterAfterWrite_Same(c) == c

\* event_counter += 1 after an event emitted by append_frame was written
CounterAfterWrite(c) == c + 1

\* process_run up to the first message: the start of the copy when a copy
\* path is configured, else everything up to the start of the GET loop
RunBegin ==
  /\ pc = "start"
  /\ IF IsSome(copy_meta)
     THEN /\ sent' = Append(sent, WorkerStatus(F32(0), "GREEN"))
          /\ pc' = "copying"
     ELSE /\ sent' = Append(sent, WorkerStatus(F32(0), "CYAN"))
          /\ pc' = "merging"
  /\ UNCHANGED <<event_counter, written, copy_meta, copy_pos, copy_count,
                 total_data_size, count, progress>>
  /\ UNCHANGED <<mergerVars, evbVars, fribVars, poolVars, hdfVars, sis, auxVars>>

\* one file copied
RunCopyFile ==
  /\ pc = "copying"
  /\ copy_pos < Len(Unwrap(copy_meta))
  /\ LET size == Unwrap(copy_meta)[copy_pos + 1]
         total_copy_size == SumSizes(Unwrap(copy_meta))
     IN /\ copy_count' = copy_count + size
        /\ sent' = Append(sent, WorkerStatus(F32Div(copy_count + size, total_copy_size),
                                             "GREEN"))
  /\ copy_pos' = copy_pos + 1
  /\ UNCHANGED <<pc, event_counter, written, copy_meta, total_data_size, count, progress>>
  /\ UNCHANGED <<mergerVars, evbVars, fribVars, poolVars, hdfVars, sis, auxVars>>

\* the end of the copy, and everything up to the start of the GET loop
RunCopyDone ==
  /\ pc = "copying"
  /\ copy_pos = Len(Unwrap(copy_meta))
  /\ sent' = sent \o <<WorkerStatus(F32(F32One), "GREEN"), WorkerStatus(F32(0), "CYAN")>>
  /\ pc' = "merging"
  /\ UNCHANGED <<event_counter, written, copy_meta, copy_pos, copy_count,
                 total_data_size, count, progress>>
  /\ UNCHANGED <<mergerVars, evbVars, fribVars, poolVars, hdfVars, sis, auxVars>>

\* one turn of the loop in which the merger found a frame
RunProcessFrame ==
  /\ pc = "merging"
  /\ frib_pc \in {"idle", "done"}
  /\ heap /= {}
  /\ \E e \in MinEntries(heap) :
       LET frame == Head(stacks[e[2]])
           st == PopFrame(stacks, e)
           r == AppendFrame(current_event_id, frame_stack, frame)
           g == ProgressStep(count, progress, FrameBytes(frame),
                             FlushVal(total_data_size))
       IN /\ count' = g.count
          /\ progress' = g.progress
          /\ sent' = IF g.send THEN Append(sent, WorkerStatus(F32(g.progress), "CYAN"))
                     ELSE sent
          /\ stacks' = st
          /\ heap' = PushBack(heap, st, e)
          /\ emitted' = Append(emitted, frame)
          /\ merger_ret' = [called |-> TRUE, val |-> Some(frame)]
          /\ current_event_id' = r.cur
          /\ frame_stack' = r.fs
          /\ ret' = r.ret
          /\ events' = events \o Emitted(r.ret)
          /\ fed' = Append(fed, frame)
          /\ arg' = frame
          /\ op' = "append_frame"
          /\ IF r.ret.tag = "Err"
             THEN /\ pc' = "failed"
                  /\ UNCHANGED <<event_counter, written, writer>>
             ELSE IF IsSome(r.ret.val)
             THEN /\ written' = WriteGetEvent(written, Unwrap(r.ret.val), event_counter)
                  /\ writer' = HdfWriteGetEvent(writer, Unwrap(r.ret.val), event_counter)
                  /\ event_counter' = CounterAfterWrite(event_counter)
                  /\ pc' = pc
             ELSE UNCHANGED <<pc, event_counter, written, writer>>
  /\ UNCHANGED <<stacks0, copy_meta, copy_pos, copy_count, total_data_size,
                 closed, fribVars, poolVars, sis, auxVars>>

\* the turn in which the merger returns None: flush_final_event and close
RunFlushFinalEvent ==
  /\ pc = "merging"
  /\ frib_pc \in {"idle", "done"}
  /\ heap = {}
  /\ LET last == FlushFinalEvent(frame_stack)
         w == IF IsSome(last) THEN HdfWriteGetEvent(writer, Unwrap(last), event_counter)
              ELSE writer
     IN /\ merger_ret' = [called |-> TRUE, val |-> None]
        /\ writer' = w
        /\ closed' = Some(HdfClose(w))
        /\ ret' = OkR(last)
        /\ op' = "flush_final_event"
        /\ written' = IF IsSome(last)
                      THEN WriteGetEvent(written, Unwrap(last), event_counter)
                      ELSE written
        /\ sent' = Append(sent, WorkerStatus(F32(F32One), "CYAN"))
        /\ pc' = "done"
  /\ UNCHANGED <<stacks0, stacks, heap, emitted, current_event_id, frame_stack,
                 fed, events, arg, event_counter, copy_meta, copy_pos,
                 copy_count, total_data_size, count, progress, fribVars, poolVars, sis, auxVars>>

(* ------------------------------ bit helpers ---------------------------- *)
\* bitwise and, and logical shift right, of unsigned integers
RECURSIVE BitAnd(_, _)
BitAnd(a, b) ==
  IF a = 0 \/ b = 0 THEN 0
  ELSE (a % 2) * (b % 2) + 2 * BitAnd(a \div 2, b \div 2)
RECURSIVE Pow2(_)
Pow2(n) == IF n = 0 THEN 1 ELSE 2 * Pow2(n - 1)
Shr(a, n) == a \div Pow2(n)

\* the test that skips a group: group_enable_flags & (1 >> group) == 0
GroupSkipped(flags, group) == BitAnd(flags, Shr(1, group)) = 0

(* ------------------------------ RingItem ------------------------------- *)
\* the literal values of the ring item type field
BEGIN_RUN_VAL == 1
END_RUN_VAL == 2
DUMMY_VAL == 12
SCALERS_VAL == 20
PHYSICS_VAL == 30
COUNTER_VAL == 31

RING_HEADER_PRESENT == 20
HEADER_PRESENT_INDEX == 28
NO_HEADER_INDEX == 12

\* impl From<u8> for RingType
RingTypeFrom(value) ==
  CASE value = BEGIN_RUN_VAL -> "BeginRun"
    [] value = END_RUN_VAL -> "EndRun"
    [] value = DUMMY_VAL -> "Dummy"
    [] value = SCALERS_VAL -> "Scalers"
    [] value = PHYSICS_VAL -> "Physics"
    [] value = COUNTER_VAL -> "Counter"
    [] OTHER -> "Invalid"

ItemSizeError == <<"ItemSizeError">>
\* the call did not return: the thread panicked
PanicR == [tag |-> "Panic", val |-> None, err |-> NoError]

\* a raw buffer: its length and the bytes it holds at offsets 4 and 8, the
\* only ones try_from looks at (a field is meaningless when len is too small)
RawBuffer(len, b4, b8) == [len |-> len, b4 |-> b4, b8 |-> b8]

\* a RingItem: size, the number of bytes stripped from the buffer to make
\* bytes (bytes = buffer[stripped..]) and the ring type
RingItem(size, stripped, ring_type) ==
  [size |-> size, stripped |-> stripped, bytes_len |-> size - stripped,
   ring_type |-> ring_type]

\* impl TryFrom<Vec<u8>> for RingItem: buffer.get(4) is checked, buffer[8]
\* is an unchecked index
RingItemTryFrom(buffer) ==
  IF buffer.len <= 4 THEN ErrR(ItemSizeError)
  ELSE IF buffer.len <= 8 THEN PanicR
  ELSE IF buffer.b8 = RING_HEADER_PRESENT /\ buffer.len >= HEADER_PRESENT_INDEX
       THEN OkR(RingItem(buffer.len, HEADER_PRESENT_INDEX, RingTypeFrom(buffer.b4)))
  ELSE IF buffer.len >= NO_HEADER_INDEX
       THEN OkR(RingItem(buffer.len, NO_HEADER_INDEX, RingTypeFrom(buffer.b4)))
  ELSE ErrR(ItemSizeError)

RawStart(buffer) == raw = [buffer |-> buffer, ret |-> None]
RawIdle == RawStart(RawBuffer(0, 0, 0))

\* RingItem::try_from(buffer)
RawTryFrom ==
  /\ raw.ret = None
  /\ raw' = [raw EXCEPT !.ret = Some(RingItemTryFrom(raw.buffer))]
  /\ UNCHANGED <<mergerVars, evbVars, runVars, fribVars, poolVars, hdfVars, sis, ring_item, channel_map, pad_map, restVars>>

\* RingItem.bytes: the 16-bit little-endian words it holds, and whether one
\* more byte follows the last word
Payload(words, odd) == [words |-> words, odd |-> odd]
ByteLen(p) == 2 * Len(p.words) + (IF p.odd THEN 1 ELSE 0)

RemoveAt(q, i) == SubSeq(q, 1, i - 1) \o SubSeq(q, i + 1, Len(q))

\* the loop of remove_boundaries, ind counted in words: ind < bytes.len()
\* with a single byte left at ind makes the slice bytes[ind..ind + 2] panic
RECURSIVE RemoveBoundariesFrom(_, _)
RemoveBoundariesFrom(p, ind) ==
  IF 2 * ind >= ByteLen(p) THEN [panicked |-> FALSE, bytes |-> p]
  ELSE IF ind = Len(p.words) THEN [panicked |-> TRUE, bytes |-> p]
  ELSE LET wlength == p.words[ind + 1] % 4096
       IN RemoveBoundariesFrom(Payload(RemoveAt(p.words, ind + 1), p.odd), ind + wlength)

\* RingItem::remove_boundaries
RemoveBoundaries(p) == RemoveBoundariesFrom(p, 0)

RingNew(p) == ring_item = [bytes0 |-> p, bytes |-> p, stage |-> "new"]
RingIdle == RingNew(Payload(<<>>, FALSE))

\* ring.remove_boundaries()
RingRemoveBoundaries ==
  /\ ring_item.stage = "new"
  /\ LET r == RemoveBoundaries(ring_item.bytes)
     IN ring_item' = [ring_item EXCEPT !.bytes = r.bytes,
                             !.stage = IF r.panicked THEN "panicked" ELSE "stripped"]
  /\ UNCHANGED <<mergerVars, evbVars, runVars, fribVars, poolVars, hdfVars, sis, raw, channel_map, pad_map, restVars>>

(* ------------------------------ EvtStack ------------------------------- *)
EndOfFile == <<"EndOfFile">>
NoMatchingFiles == <<"NoMatchingFiles">>
FileError(e) == <<"FileError", e>>

\* a file of the run directory: the whole items it holds (each the buffer
\* its size field announces), the number of bytes that follow them (the
\* start of an item cut short), and whether its path contains "run-" and
\* ".evt"; files are named by the rank of their path in the sorted order
EvtFileOnDisk(chunks, tail, matches) ==
  [chunks |-> chunks, tail |-> tail, matches |-> matches]

\* the size announced by an item that was cut short
CUT_ITEM_SIZE == 12

\* EvtFile::new
EvtFileNew(name) == [name |-> name, pos |-> 0, is_eof |-> FALSE]

\* EvtFile::get_next_item: the size field or the item itself cannot be read
\* in full (UnexpectedEof), or the buffer goes to RingItem::try_from
GetNextItem(file) ==
  LET d == disk[file.name]
  IN IF file.pos = Len(d.chunks)
     THEN IF d.tail < 4 \/ d.tail < CUT_ITEM_SIZE
          THEN [file |-> [file EXCEPT !.is_eof = TRUE], res |-> ErrR(EndOfFile)]
          ELSE [file |-> file, res |-> ErrR(ItemSizeError)]
     ELSE LET r == RingItemTryFrom(d.chunks[file.pos + 1])
          IN [file |-> [file EXCEPT !.pos = @ + 1],
              res |-> IF r.tag = "Ok" THEN OkR(<<file.name, file.pos + 1>>) ELSE r]

\* file_list.sort()
RECURSIVE SortPaths(_)
SortPaths(list) ==
  IF list = <<>> THEN <<>>
  ELSE LET i == CHOOSE i \in 1..Len(list) : \A j \in 1..Len(list) : list[i] <= list[j]
       IN <<list[i]>> \o SortPaths(RemoveAt(list, i))

\* a stack that keeps the order read_dir gave
FileStack_Unsorted(list) == list

\* the file stack made of the matching paths
FileStack(list) == SortPaths(list)

\* EvtStack::get_file_stack: the entries of read_dir, in the order it gives
\* them, that contain both patterns
Matching(listing) == SelectSeq(listing, LAMBDA n : disk[n].matches)

\* EvtStack::move_to_next_file
RECURSIVE MoveToNextFile(_)
MoveToNextFile(st) ==
  IF st.file_stack /= <<>>
  THEN LET next_file == EvtFileNew(Head(st.file_stack))
           popped == [st EXCEPT !.file_stack = Tail(@)]
       IN IF ~next_file.is_eof THEN [popped EXCEPT !.active_file = next_file]
          ELSE MoveToNextFile(popped)
  ELSE [st EXCEPT !.is_ended = TRUE]

\* EvtStack::get_next_ring_item: the stack after the call and what it returns
RECURSIVE GetNextRingItem(_)
GetNextRingItem(st) ==
  IF st.is_ended THEN [stack |-> st, res |-> OkR(None)]
  ELSE LET g == GetNextItem(st.active_file)
           read == [st EXCEPT !.active_file = g.file]
       IN CASE g.res.tag = "Ok" -> [stack |-> read, res |-> OkR(Some(g.res.val))]
            [] g.res.tag = "Panic" -> [stack |-> read, res |-> PanicR]
            [] g.res.err = EndOfFile -> GetNextRingItem(MoveToNextFile(read))
            [] OTHER -> [stack |-> read, res |-> ErrR(FileError(g.res.err))]

\* all orders in which read_dir may give the entries of the directory
Listings == {l \in [1..MaxFiles -> 1..MaxFiles] : \A i, j \in 1..MaxFiles : i /= j => l[i] /= l[j]}

StackStart(d, p) ==
  /\ disk = d
  /\ evt_stack = None
  /\ stack_pc = p
  /\ returned = <<>>
StackIdle == StackStart(<<>>, "idle")

StackFrame == <<mergerVars, evbVars, runVars, fribVars, poolVars, hdfVars, sis,
                ringVars, channel_map, pad_map, subset_worker, guiVars>>

\* EvtStack::new
EvtStackNew ==
  /\ stack_pc = "new"
  /\ \E listing \in Listings :
       LET stack == FileStack(Matching(listing))
       IN IF stack = <<>>
          THEN /\ stack_pc' = "failed"
               /\ UNCHANGED evt_stack
          ELSE /\ stack_pc' = "open"
               /\ evt_stack' = [file_stack |-> Tail(stack),
                                active_file |-> EvtFileNew(Head(stack)),
                                is_ended |-> FALSE]
  /\ UNCHANGED <<disk, returned, StackFrame>>

\* a call of get_next_ring_item
EvtStackGetNextRingItem ==
  /\ stack_pc = "open"
  /\ Len(returned) < MaxReads
  /\ LET r == GetNextRingItem(evt_stack)
     IN /\ evt_stack' = r.stack
        /\ returned' = Append(returned, r.res)
        /\ stack_pc' = IF r.res.tag = "Panic" THEN "panicked" ELSE "open"
  /\ UNCHANGED <<disk, StackFrame>>

(* --------------------- process_subset, process_run --------------------- *)
\* a does_run_exist that never looks at the run directory
DoesRunExist_Always(cfg, dirs, run) == TRUE

\* Config::does_run_exist: the run directory is not looked at when online
DoesRunExist(cfg, dirs, run) == IF cfg.online THEN TRUE ELSE dirs[run] /= "missing"

\* the steps of process_run that can end it with an error, in the order of
\* the code: copying the files, opening the output (file name, channel map,
\* HDFWriter::new), process_evt_data, Merger::new with write_fileinfo and the
\* first message, the GET loop, evb.flush_final_event (which cannot fail),
\* writing the flushed event, HDFWriter::close, the final 1.0 message, and
\* deleting the copied files
Faults == {"copy", "open", "evt", "merger", "loop", "write_final", "close",
           "final", "delete"}

\* the steps process_run goes through with this configuration
StepsOf(cfg) ==
  (IF cfg.copy THEN <<"copy">> ELSE <<>>)
  \o <<"open", "evt", "merger", "loop", "flush", "write_final", "close", "final">>
  \o (IF cfg.copy /\ cfg.delete_copied THEN <<"delete">> ELSE <<>>)

\* the steps completed before the one that fails
RECURSIVE Before(_, _)
Before(steps, fault) ==
  IF steps = <<>> \/ Head(steps) = fault THEN <<>>
  ELSE <<Head(steps)>> \o Before(Tail(steps), fault)

\* process_run: the steps it completed and its result
ProcessRun(cfg, run, fault) ==
  LET steps == StepsOf(cfg)
      done == Before(steps, fault)
  IN [run |-> run, done |-> done, fault |-> fault,
      result |-> IF Len(done) < Len(steps) THEN "err" ELSE "ok"]

\* a process_subset that goes on with the next run after an error
OnRunError_Continues == "running"

\* process_run(..)?: the error ends process_subset
OnRunError == "err"

SubsetStart(cfg, dirs, faults, subset) ==
  subset_worker = [cfg |-> cfg, dirs |-> dirs, faults |-> faults, subset |-> subset,
                   pos |-> 0, result |-> "running", runs |-> <<>>, skipped |-> <<>>]
SubsetIdle ==
  SubsetStart([copy |-> FALSE, delete_copied |-> FALSE, online |-> FALSE],
              <<>>, <<>>, <<>>)
\* MergerApp::new with its configuration; "off" when no GUI is running
GuiStart(cfg, at) ==
  /\ gui = [config |-> cfg, workers |-> <<>>, worker_statuses |-> <<>>,
            show_error_window |-> FALSE, pc |-> at, starts |-> <<>>, sent |-> 0]
  /\ gui_threads = <<>>
  /\ worker_channel = <<>>
GuiIdle ==
  GuiStart([first_run_number |-> 0, last_run_number |-> 0, n_threads |-> 1,
            online |-> FALSE], "off")
RestIdle == StackIdle /\ SubsetIdle /\ GuiIdle

SubsetFrame == <<mergerVars, evbVars, runVars, fribVars, poolVars, hdfVars, sis,
                 ringVars, channel_map, pad_map, stackVars, guiVars>>

\* one turn of the loop of process_subset
SubsetTurn ==
  /\ subset_worker.result = "running"
  /\ subset_worker.pos < Len(subset_worker.subset)
  /\ LET w == subset_worker
         run == w.subset[w.pos + 1]
         r == ProcessRun(w.cfg, run, w.faults[run])
     IN subset_worker' =
          IF DoesRunExist(w.cfg, w.dirs, run)
          THEN [w EXCEPT !.pos = @ + 1, !.runs = Append(@, r),
                         !.result = IF r.result = "err" THEN OnRunError ELSE "running"]
          ELSE [w EXCEPT !.pos = @ + 1, !.skipped = Append(@, run)]
  /\ UNCHANGED SubsetFrame

\* the Ok(()) after the loop
SubsetReturn ==
  /\ subset_worker.result = "running"
  /\ subset_worker.pos = Len(subset_worker.subset)
  /\ subset_worker' = [subset_worker EXCEPT !.result = "ok"]
  /\ UNCHANGED SubsetFrame

(* ----------------------- GetChannelMap, loading ----------------------- *)
\* the CSV, read and with its header skipped, before GetChannelMap::new
MapStart(rows) == channel_map = [rows |-> rows, ret |-> None]
MapIdle == MapStart(<<>>)

\* GetChannelMap::new
GetChannelMapNew ==
  /\ channel_map.ret = None
  /\ channel_map' = [channel_map EXCEPT !.ret = Some(LoadRows(channel_map.rows, 1, <<>>))]
  /\ UNCHANGED <<mergerVars, evbVars, runVars, fribVars, poolVars, hdfVars, sis, ringVars, pad_map, restVars>>

\* an EventBuilder made with an empty map
PadMapIs(map) == pad_map = map
NoPads == PadMapIs(<<>>)

AuxIdle == RawIdle /\ RingIdle /\ MapIdle /\ NoPads /\ RestIdle

(* --------------------- PhysicsItem and its modules --------------------- *)
\* the tags of the modules of the VME stack, the SIS3300 header and trailer
TAG_FADC1 == 6403     \* 0x1903
TAG_FADC2 == 6404     \* 0x1904
TAG_FADC3 == 6405     \* 0x1905
TAG_FADC4 == 6406     \* 0x1906
TAG_COINC == 2423     \* 0x977
SIS_HEADER == 64220   \* 0xfadc
SIS_TRAILER == 65535  \* 0xffff

\* the outcome of a decoder over the words w: "ok", "err" (a read past the
\* end, returned with ?) or "panic", the cursor (in words) and whether an
\* invalid header or trailer was logged
Decoded(status, pos, logged) == [status |-> status, pos |-> pos, logged |-> logged]

\* the loop of SIS3300Item::extract_data over the groups, from group on
RECURSIVE Sis3300Groups(_, _, _, _, _)
Sis3300Groups(w, p, flags, group, checks) ==
  IF group = 4 THEN Decoded("ok", p, FALSE)
  ELSE IF GroupSkipped(flags, group) THEN Sis3300Groups(w, p, flags, group + 1, checks)
  ELSE IF p + 1 > Len(w) THEN Decoded("err", p, FALSE)
  ELSE IF w[p + 1] /= SIS_HEADER THEN Decoded("ok", p + 1, TRUE)
  ELSE IF p + 5 > Len(w) THEN Decoded("err", p, FALSE)
  ELSE LET trigger_lo == w[p + 2]
           trigger_hi == w[p + 3]
           samples_lo == w[p + 4]
           samples_hi == w[p + 5]
           start == p + 5
           \* group_trigger & 0x80000, and group_trigger & 0x1ffff
           wrap == (trigger_hi \div 8) % 2 = 1
           pointer_hi == trigger_hi % 2
           no_samples == samples_lo = 0 /\ samples_hi = 0
           \* the 4 * samples bytes of data are all in the buffer
           fits == samples_hi = 0 /\ start + 2 * samples_lo <= Len(w)
           trailer == start + 2 * samples_lo
       IN IF wrap /\ no_samples
          \* samples - 1 overflows: a panic when overflows are checked; else
          \* the first read at 4 * (pointer + 1) bytes from start fails, or
          \* succeeds and is stored at index 0 of an empty trace
          THEN IF checks THEN Decoded("panic", start, FALSE)
               ELSE IF pointer_hi = 0 /\ start + 2 * (trigger_lo + 1) + 1 <= Len(w)
                    THEN Decoded("panic", start, FALSE)
                    ELSE Decoded("err", start, FALSE)
          ELSE IF ~fits THEN Decoded("err", start, FALSE)
          ELSE IF trailer + 1 > Len(w) THEN Decoded("err", trailer, FALSE)
          ELSE IF w[trailer + 1] /= SIS_TRAILER THEN Decoded("ok", trailer + 1, TRUE)
          ELSE Sis3300Groups(w, trailer + 1, flags, group + 1, checks)

\* SIS3300Item::extract_data: group_enable_flags, the daq register, the groups
Sis3300ExtractData(w, p, checks) ==
  IF p + 3 > Len(w) THEN Decoded("err", p, FALSE)
  ELSE Sis3300Groups(w, p + 3, w[p + 1], 0, checks)

\* V977Item::extract_data: one u16
V977ExtractData(w, p) ==
  IF p + 1 > Len(w) THEN Decoded("err", p, FALSE) ELSE Decoded("ok", p + 1, FALSE)

\* SIS3316Item::extract_data from the header of a channel on: the channel,
\* two stamps, the sample count (a u16 times 2, which overflows from 0x8000
\* on), the status, the samples, and a look at the next word
RECURSIVE Sis3316Channels(_, _, _)
Sis3316Channels(w, p, checks) ==
  IF p + 5 > Len(w) THEN Decoded("err", p, FALSE)
  ELSE IF w[p + 5] >= 32768 /\ checks THEN Decoded("panic", p, FALSE)
  ELSE IF p + 6 > Len(w) THEN Decoded("err", p, FALSE)
  ELSE LET samples == (w[p + 5] * 2) % 65536
           next == p + 6 + samples
       IN IF next + 1 > Len(w) THEN Decoded("err", p, FALSE)
          ELSE IF w[next + 1] = SIS_TRAILER THEN Decoded("ok", next, FALSE)
          ELSE Sis3316Channels(w, next, checks)

\* the loop on tags of PhysicsItem::try_from
RECURSIVE PhysicsTags(_, _, _, _)
PhysicsTags(w, p, logged, checks) ==
  IF p + 1 > Len(w) THEN Decoded("ok", p, logged)
  ELSE LET tag == w[p + 1]
           r == IF tag \in {TAG_FADC1, TAG_FADC2, TAG_FADC3}
                THEN Sis3300ExtractData(w, p + 1, checks)
                ELSE IF tag = TAG_FADC4 THEN Sis3316Channels(w, p + 1, checks)
                ELSE V977ExtractData(w, p + 1)
       IN IF tag \notin {TAG_FADC1, TAG_FADC2, TAG_FADC3, TAG_FADC4, TAG_COINC}
          THEN Decoded("ok", p, logged)
          ELSE IF r.status /= "ok" THEN Decoded(r.status, r.pos, logged \/ r.logged)
          ELSE PhysicsTags(w, r.pos, logged \/ r.logged, checks)

\* PhysicsItem::try_from over ring.bytes: event, timestamp, then the tags
PhysicsParse(w, checks) ==
  IF 4 > Len(w) THEN Decoded("err", 0, FALSE) ELSE PhysicsTags(w, 4, FALSE, checks)

(* ----------------------------- FRIB builder ---------------------------- *)
\* payload sizes in bytes: one too short for every typed item, one that holds
\* a well-formed item of any type
PayloadLens == {4, 32}
DecodedTypes == {"BeginRun", "EndRun", "Scalers", "Physics"}
UndecodedTypes == {"Dummy", "Counter", "Invalid"}

\* a Physics RingItem with its bytes, and the two used where the content of
\* the item does not matter: 4 bytes, and 32 bytes (a boundary tag that
\* covers the rest, event, timestamp, and words that are no module tag)
PhysicsRing(p) == [ring_type |-> "Physics", len |-> ByteLen(p), bytes |-> p]
ShortPhysics == PhysicsRing(Payload(<<1, 0>>, FALSE))
PlainPhysics == PhysicsRing(Payload(<<15>> \o [i \in 1..15 |-> 0], FALSE))

\* a RingItem: its ring_type and the length of its payload
RingItems ==
  {[ring_type |-> t, len |-> l] : t \in DecodedTypes \ {"Physics"}, l \in PayloadLens}
  \cup {ShortPhysics, PlainPhysics}
  \cup {[ring_type |-> t, len |-> 32] : t \in UndecodedTypes}
  \cup {[ring_type |-> "Invalid", len |-> 4]}

UnexpectedEof == <<"UnexpectedEof">>

\* BeginRunItem::try_from reads run at offset 0 and start at offset 8
BeginRunItemTryFrom(ring, pos) ==
  IF ring.len >= 12 THEN OkR(pos) ELSE ErrR(UnexpectedEof)

\* EndRunItem::try_from reads stop and time, two u32
EndRunItemTryFrom(ring, pos) ==
  IF ring.len >= 8 THEN OkR(pos) ELSE ErrR(UnexpectedEof)

\* ScalersItem::try_from reads six u32 and then the scalers
ScalersItemTryFrom(ring, pos) ==
  IF ring.len >= 24 THEN OkR(pos) ELSE ErrR(UnexpectedEof)

\* PhysicsItem::try_from over the bytes that remove_boundaries left
PhysicsItemTryFrom(ring, pos) ==
  LET d == PhysicsParse(ring.bytes.words, overflow_checks)
  IN CASE d.status = "ok" -> OkR(pos)
       [] d.status = "err" -> ErrR(UnexpectedEof)
       [] OTHER -> PanicR

\* process_evt_data on a Physics item: ring.remove_boundaries(), then
\* PhysicsItem::try_from(ring)
ProcessPhysics(ring, pos) ==
  LET rb == RemoveBoundaries(ring.bytes)
  IN IF rb.panicked THEN PanicR
     ELSE PhysicsItemTryFrom([ring EXCEPT !.bytes = rb.bytes], pos)

\* RunInfo::new: begin and end are the defaults (0) until an item is decoded
RunInfoNew == [begin |-> 0, end |-> 0]

FribWrite(call, counter, item, info) ==
  [call |-> call, counter |-> counter, item |-> item,
   begin |-> info.begin, end |-> info.end]

\* FribBuilder::new and the start of process_evt_data over the ring items
FribStart(items) ==
  /\ evt_items = items
  /\ frib_pos = 0
  /\ run_info = RunInfoNew
  /\ scaler_counter = 0
  /\ frib_event_counter = 0
  /\ frib_pc = "running"
  /\ decoded = <<>>
  /\ frib_writes = <<>>

\* a run without evt data
FribIdle ==
  /\ evt_items = <<>>
  /\ frib_pos = 0
  /\ run_info = RunInfoNew
  /\ scaler_counter = 0
  /\ frib_event_counter = 0
  /\ frib_pc = "idle"
  /\ decoded = <<>>
  /\ frib_writes = <<>>

\* a loop that goes on after the EndRun item
EndRunNextPc_NoBreak == "running"

\* the loop goes on, ends (break) or is left with an error (?)
EndRunNextPc == "done"
PcAfter(r) ==
  CASE r.tag = "Err" -> "failed"
    [] r.tag = "Panic" -> "panicked"
    [] OTHER -> "running"

\* a builder with one counter for both item types
CountersAfterPhysics_Shared(sc, ec) == [scaler |-> sc + 1, event |-> ec + 1]

\* the counters after a Scalers item and after a Physics item was written
CountersAfterScalers(sc, ec) == [scaler |-> sc + 1, event |-> ec]
CountersAfterPhysics(sc, ec) == [scaler |-> sc, event |-> ec + 1]

\* get_next_ring_item returned a ring item of type t
NextRing(t) ==
  /\ frib_pc = "running"
  /\ frib_pos < Len(evt_items)
  /\ evt_items[frib_pos + 1].ring_type \in t
  /\ frib_pos' = frib_pos + 1
  /\ UNCHANGED <<evt_items, mergerVars, evbVars, runVars, poolVars, sis, auxVars>>

FribBeginRun ==
  /\ NextRing({"BeginRun"})
  /\ LET r == BeginRunItemTryFrom(evt_items[frib_pos + 1], frib_pos + 1)
     IN /\ decoded' = Append(decoded, frib_pos + 1)
        /\ run_info' = IF r.tag = "Ok" THEN [run_info EXCEPT !.begin = r.val]
                       ELSE run_info
        /\ frib_pc' = PcAfter(r)
  /\ UNCHANGED <<scaler_counter, frib_event_counter, frib_writes, hdfVars>>

FribEndRun ==
  /\ NextRing({"EndRun"})
  /\ LET r == EndRunItemTryFrom(evt_items[frib_pos + 1], frib_pos + 1)
         info == [run_info EXCEPT !.end = r.val]
     IN /\ decoded' = Append(decoded, frib_pos + 1)
        /\ IF r.tag = "Ok"
           THEN /\ run_info' = info
                /\ frib_writes' = Append(frib_writes,
                     FribWrite("write_frib_runinfo", 0, frib_pos + 1, info))
                /\ frib_pc' = EndRunNextPc
           ELSE /\ frib_pc' = "failed"
                /\ UNCHANGED <<run_info, frib_writes>>
  /\ UNCHANGED <<scaler_counter, frib_event_counter, hdfVars>>

FribScalers ==
  /\ NextRing({"Scalers"})
  /\ LET r == ScalersItemTryFrom(evt_items[frib_pos + 1], frib_pos + 1)
         c == CountersAfterScalers(scaler_counter, frib_event_counter)
     IN /\ decoded' = Append(decoded, frib_pos + 1)
        /\ frib_pc' = PcAfter(r)
        /\ IF r.tag = "Ok"
           THEN /\ frib_writes' = Append(frib_writes,
                     FribWrite("write_frib_scalers", scaler_counter, r.val, run_info))
                /\ writer' = HdfWriteFribScalers(writer, scaler_counter)
                /\ scaler_counter' = c.scaler
                /\ frib_event_counter' = c.event
           ELSE UNCHANGED <<frib_writes, scaler_counter, frib_event_counter, writer>>
  /\ UNCHANGED <<run_info, closed>>

FribPhysics ==
  /\ NextRing({"Physics"})
  /\ LET r == ProcessPhysics(evt_items[frib_pos + 1], frib_pos + 1)
         c == CountersAfterPhysics(scaler_counter, frib_event_counter)
     IN /\ decoded' = Append(decoded, frib_pos + 1)
        /\ frib_pc' = PcAfter(r)
        /\ IF r.tag = "Ok"
           THEN /\ frib_writes' = Append(frib_writes,
                     FribWrite("write_frib_physics", frib_event_counter, r.val, run_info))
                /\ writer' = HdfWriteFribPhysics(writer, frib_event_counter)
                /\ scaler_counter' = c.scaler
                /\ frib_event_counter' = c.event
           ELSE UNCHANGED <<frib_writes, scaler_counter, frib_event_counter, writer>>
  /\ UNCHANGED <<run_info, closed>>

\* Dummy and Counter items are ignored
FribIgnore ==
  /\ NextRing({"Dummy", "Counter"})
  /\ UNCHANGED <<run_info, scaler_counter, frib_event_counter, frib_pc,
                 decoded, frib_writes, hdfVars>>

\* an unrecognized type is logged with ring.bytes[4], an unchecked index
\* into the bytes that follow the stripped prefix
FribInvalid ==
  /\ NextRing({"Invalid"})
  /\ frib_pc' = IF evt_items[frib_pos + 1].len <= 4 THEN "panicked" ELSE "running"
  /\ UNCHANGED <<run_info, scaler_counter, frib_event_counter,
                 decoded, frib_writes, hdfVars>>

\* get_next_ring_item returned None: the stack has no more data
FribNoMoreData ==
  /\ frib_pc = "running"
  /\ frib_pos = Len(evt_items)
  /\ frib_pc' = "done"
  /\ UNCHANGED <<evt_items, frib_pos, run_info, scaler_counter,
                 frib_event_counter, decoded, frib_writes>>
  /\ UNCHANGED <<mergerVars, evbVars, runVars, poolVars, hdfVars, sis, auxVars>>


(* ------------------------ the pool of workers -------------------------- *)
\* the bounds of i32, the type of the run numbers of Config
I32Max == 2147483647
I32Min == -I32Max - 1

\* the run numbers first..=last, written so that no number above I32Max is
\* formed
RunsOf(first, last) == IF last < first THEN {} ELSE {first + i : i \in 0..(last - first)}

\* the loop of create_subsets: the run at position idx of the range goes to
\* subsets[idx % n_subsets]
RECURSIVE PushRuns(_, _, _, _)
PushRuns(sub, idx, n_runs, first) ==
  IF idx >= n_runs THEN sub
  ELSE PushRuns([sub EXCEPT ![(idx % Len(sub)) + 1] = Append(@, first + idx)],
                idx + 1, n_runs, first)

\* create_subsets: last_run_number + 1 overflows i32 when last_run_number is
\* I32Max; a build with overflow checks panics there, one without wraps to
\* I32Min and the range first..I32Min is empty
CreateSubsets(cfg, checks) ==
  LET first == cfg.first_run_number
      last == cfg.last_run_number
      empty == [k \in 1..cfg.n_threads |-> <<>>]
  IN IF last = I32Max
     THEN IF checks THEN [panicked |-> TRUE, subsets |-> <<>>]
          ELSE [panicked |-> FALSE, subsets |-> empty]
     ELSE [panicked |-> FALSE,
           subsets |-> PushRuns(empty, 0,
                                IF last + 1 > first THEN last + 1 - first ELSE 0,
                                first)]

\* the result of process_run on a run: an error when its GET data cannot be
\* opened or decoded
ProcessRunOk(dirs, run) == dirs[run] = "ok"

\* a thread running process_subset(config, tx, worker_id, subset)
Thread(idx, subset) ==
  [worker_id |-> idx, subset |-> subset, pos |-> 0, result |-> "running",
   processed |-> <<>>, skipped |-> <<>>]

\* start_workers: one thread for each non-empty subset, in subset order
RECURSIVE SpawnAll(_, _)
SpawnAll(sub, idx) ==
  IF idx >= Len(sub) THEN <<>>
  ELSE IF sub[idx + 1] = <<>> THEN SpawnAll(sub, idx + 1)
       ELSE <<Thread(idx, sub[idx + 1])>> \o SpawnAll(sub, idx + 1)

\* one turn of the loop of process_subset, and the return after the last run
SubsetStep(cfg, dirs, t) ==
  LET run == t.subset[t.pos + 1]
      last == t.pos + 1 = Len(t.subset)
  IN IF DoesRunExist(cfg, dirs, run)
     THEN IF ProcessRunOk(dirs, run)
          THEN [t EXCEPT !.pos = @ + 1, !.processed = Append(@, run),
                         !.result = IF last THEN "ok" ELSE "running"]
          ELSE [t EXCEPT !.pos = @ + 1, !.processed = Append(@, run),
                         !.result = "err"]
     ELSE [t EXCEPT !.pos = @ + 1, !.skipped = Append(@, run),
                    !.result = IF last THEN "ok" ELSE "running"]

\* the configurations tried: first..=last holds at most MaxRuns runs (none
\* when last = first - 1) and ends at most at I32Max
FirstRuns == {0, 10, I32Max - 1, I32Max}
RunCounts(f) == 0..(IF I32Max - f < MaxRuns THEN (I32Max - f) + 1 ELSE MaxRuns)
Configs ==
  UNION {{[first_run_number |-> f, last_run_number |-> (f - 1) + n,
           n_threads |-> t, online |-> o] :
             n \in RunCounts(f), t \in 1..MaxThreads, o \in BOOLEAN} :
         f \in FirstRuns}

PoolStart(cfg, checks, dirs) ==
  /\ config = cfg
  /\ overflow_checks = checks
  /\ run_dirs = dirs
  /\ subsets = <<>>
  /\ workers = <<>>
  /\ threads = <<>>
  /\ app_pc = "idle"
  /\ show_error_window = FALSE

PoolIdle ==
  PoolStart([first_run_number |-> 0, last_run_number |-> 0, n_threads |-> 1,
             online |-> FALSE], FALSE, [r \in {0} |-> "ok"])

\* MergerApp::start_workers, after a click on Run
StartWorkers ==
  /\ app_pc = "idle"
  /\ workers = <<>>
  /\ LET r == CreateSubsets(config, overflow_checks)
     IN IF r.panicked
        THEN /\ app_pc' = "panicked"
             /\ UNCHANGED <<subsets, workers, threads>>
        ELSE /\ subsets' = r.subsets
             /\ threads' = SpawnAll(r.subsets, 0)
             /\ workers' = [k \in 1..Len(SpawnAll(r.subsets, 0)) |-> k]
             /\ app_pc' = "running"
  /\ UNCHANGED <<config, overflow_checks, run_dirs, show_error_window>>
  /\ UNCHANGED <<mergerVars, evbVars, runVars, fribVars, hdfVars, sis, auxVars>>

\* a pool in which an error of one thread stops the others
StillRunning_UntilAnyError(ths, k) ==
  /\ ths[k].result = "running"
  /\ \A j \in 1..Len(ths) : ths[j].result /= "err"

\* a spawned thread runs until its own process_subset returns
StillRunning(ths, k) == ths[k].result = "running"

\* a step of the thread of worker k
WorkerStep(k) ==
  /\ app_pc = "running"
  /\ StillRunning(threads, k)
  /\ threads' = [threads EXCEPT ![k] = SubsetStep(config, run_dirs, threads[k])]
  /\ UNCHANGED <<config, overflow_checks, run_dirs, subsets, workers, app_pc,
                 show_error_window>>
  /\ UNCHANGED <<mergerVars, evbVars, runVars, fribVars, hdfVars, sis, auxVars>>

AnyWorkersAlive == \E k \in 1..Len(workers) : threads[workers[k]].result = "running"

\* MergerApp::stop_workers, called once no worker is alive: join every worker
StopWorkers ==
  /\ app_pc = "running"
  /\ ~AnyWorkersAlive
  /\ workers' = <<>>
  /\ show_error_window' =
       (show_error_window \/ \E k \in 1..Len(workers) : threads[workers[k]].result = "err")
  /\ app_pc' = "joined"
  /\ UNCHANGED <<config, overflow_checks, run_dirs, subsets, threads>>
  /\ UNCHANGED <<mergerVars, evbVars, runVars, fribVars, hdfVars, sis, auxVars>>


(* ------------------------------ the GUI -------------------------------- *)
WorkerStatusNew(prog, run_number, worker_id, color) ==
  [progress |-> prog, run_number |-> run_number, worker_id |-> worker_id,
   color |-> color]

\* a GUI that numbers its workers from 1
SpawnedId_FromOne(idx) == idx + 1

\* the worker_id moved into the thread spawned for subsets[idx]
SpawnedId(idx) == idx

\* the loop of start_workers from subsets[idx] on: the statuses pushed and
\* the threads spawned, none for an empty subset
RECURSIVE GuiSpawn(_, _)
GuiSpawn(sub, idx) ==
  IF idx >= Len(sub) THEN [statuses |-> <<>>, threads |-> <<>>]
  ELSE LET rest == GuiSpawn(sub, idx + 1)
       IN IF sub[idx + 1] = <<>> THEN rest
          ELSE [statuses |-> <<WorkerStatusNew(0, 0, idx, "CYAN")>> \o rest.statuses,
                threads |-> <<[worker_id |-> SpawnedId(idx), subset |-> sub[idx + 1],
                               finished |-> FALSE, result |-> "running"]>>
                            \o rest.threads]

\* MergerApp::are_any_workers_alive
GuiAnyWorkersAlive ==
  \E k \in 1..Len(gui.workers) : ~gui_threads[gui.workers[k]].finished

GuiFrame == <<mergerVars, evbVars, runVars, fribVars, poolVars, hdfVars, sis,
              ringVars, channel_map, pad_map, stackVars, subset_worker>>

\* one turn of the loop of poll_messages: try_recv gives a status, which is
\* stored at its worker_id (an unchecked index), or Empty, which ends the
\* loop; the app holds a Sender, so Disconnected never comes
GuiTryRecv ==
  /\ gui.pc = "poll"
  /\ IF worker_channel = <<>>
     THEN /\ gui' = [gui EXCEPT !.pc = "controls"]
          /\ UNCHANGED worker_channel
     ELSE LET status == Head(worker_channel)
              id == status.worker_id
          IN /\ worker_channel' = Tail(worker_channel)
             /\ gui' = IF id < Len(gui.worker_statuses)
                       THEN [gui EXCEPT !.worker_statuses[id + 1] = status]
                       ELSE [gui EXCEPT !.pc = "panicked"]
  /\ UNCHANGED <<gui_threads, GuiFrame>>

\* the configurations set in the GUI: n_threads workers for the runs
\* 0..last_run_number
GuiConfigs ==
  {[first_run_number |-> 0, last_run_number |-> n - 1, n_threads |-> t,
    online |-> FALSE] : n \in 0..MaxWorkers, t \in 1..MaxWorkers}

\* update, after poll_messages: the configuration was edited, Run is enabled
\* and clicked: start_workers
GuiRunClicked ==
  /\ gui.pc = "controls"
  /\ gui.workers = <<>>
  /\ Len(gui.starts) < MaxClicks
  /\ \E cfg \in GuiConfigs :
       LET r == CreateSubsets(cfg, overflow_checks)
           spawned == GuiSpawn(r.subsets, 0)
       IN /\ gui' = [gui EXCEPT !.config = cfg,
                                !.worker_statuses = spawned.statuses,
                                !.workers = [k \in 1..Len(spawned.threads) |-> k],
                                !.starts = Append(@, Len(spawned.threads)),
                                !.pc = IF r.panicked THEN "panicked" ELSE "poll"]
          /\ gui_threads' = spawned.threads
  /\ UNCHANGED <<worker_channel, GuiFrame>>

\* update, after poll_messages: Run is disabled or not clicked; stop_workers
\* when no worker is alive
GuiNoClick ==
  /\ gui.pc = "controls"
  /\ IF ~GuiAnyWorkersAlive
     THEN /\ gui' = [gui EXCEPT !.workers = <<>>, !.pc = "poll",
                       !.show_error_window =
                          (@ \/ \E k \in 1..Len(gui.workers) :
                                   gui_threads[gui.workers[k]].result = "err")]
          /\ gui_threads' = <<>>
     ELSE /\ gui' = [gui EXCEPT !.pc = "poll"]
          /\ UNCHANGED gui_threads
  /\ UNCHANGED <<worker_channel, GuiFrame>>

\* a worker sends a WorkerStatus for a run of its subset
GuiWorkerSend(k) ==
  /\ ~gui_threads[k].finished
  /\ gui.sent < MaxSends
  /\ worker_channel' = Append(worker_channel,
       WorkerStatusNew(1, Head(gui_threads[k].subset), gui_threads[k].worker_id, "CYAN"))
  /\ gui' = [gui EXCEPT !.sent = @ + 1]
  /\ UNCHANGED <<gui_threads, GuiFrame>>

\* the thread of a worker ends: process_subset returned
GuiWorkerFinish(k) ==
  /\ ~gui_threads[k].finished
  /\ \E res \in {"ok", "err"} :
       gui_threads' = [gui_threads EXCEPT ![k] = [@ EXCEPT !.finished = TRUE,
                                                            !.result = res]]
  /\ UNCHANGED <<gui, worker_channel, GuiFrame>>

(* ------------------------- SIS3300 decoder ----------------------------- *)
\* bit g of the flags
BitSet(flags, g) == (flags \div Pow2(g)) % 2 = 1

\* what the buffer holds for one enabled group: a header (0xfadc or not), the
\* trigger, the sample count, 4 bytes per sample and a trailer (0xffff or not)
GroupBlocks ==
  [header_ok : BOOLEAN, samples : 1..MaxSamples, trailer_ok : BOOLEAN]
BlockBytes(b) == 2 + 4 + 4 + 4 * b.samples + 2

\* a trace: its length and whether it holds zeros or data read from the buffer
Trace(len, fill) == [len |-> len, fill |-> fill]

\* SIS3300Item::new and the reads before the loop
SisStart(flags, blocks) ==
  sis = [flags |-> flags, blocks |-> blocks, pos |-> 0, consumed |-> 0,
         group |-> 0, samples |-> 0, channels |-> 0, hasdata |-> FALSE,
         traces |-> [c \in 0..7 |-> Trace(0, "zeros")],
         read |-> {}, skipped |-> {}, status |-> "running"]

SisIdle == SisStart(0, <<>>)

\* one turn of the loop over the four groups
SisGroup ==
  /\ sis.status = "running"
  /\ sis.group < 4
  /\ LET g == sis.group
         next == [sis EXCEPT !.group = g + 1, !.channels = @ + 2,
                             !.status = IF g + 1 = 4 THEN "ok" ELSE "running"]
     IN IF GroupSkipped(sis.flags, g)
        THEN sis' = [next EXCEPT
                       !.skipped = @ \cup {g},
                       !.traces = IF sis.samples > 0
                                  THEN [@ EXCEPT ![2 * g] = Trace(sis.samples, "zeros"),
                                                 ![2 * g + 1] = Trace(sis.samples, "zeros")]
                                  ELSE @]
        ELSE IF sis.pos >= Len(sis.blocks)
        THEN sis' = [sis EXCEPT !.channels = @ + 2, !.status = "err"]
        ELSE LET b == sis.blocks[sis.pos + 1]
             IN IF ~b.header_ok
                THEN sis' = [sis EXCEPT !.channels = @ + 2, !.consumed = @ + 2,
                                        !.status = "ok"]
                ELSE LET filled == [next EXCEPT
                                      !.pos = @ + 1,
                                      !.consumed = @ + BlockBytes(b),
                                      !.samples = b.samples,
                                      !.read = @ \cup {g},
                                      !.traces = [@ EXCEPT ![2 * g] = Trace(b.samples, "data"),
                                                           ![2 * g + 1] = Trace(b.samples, "data")]]
                     IN IF b.trailer_ok
                        THEN sis' = [filled EXCEPT !.hasdata = TRUE]
                        ELSE sis' = [filled EXCEPT !.group = g, !.status = "ok"]
  /\ UNCHANGED <<mergerVars, evbVars, runVars, fribVars, poolVars, hdfVars, auxVars>>

(* --------------------------- specifications ---------------------------- *)
\* the merger of a run, asked for frames until it has none
InitMerger ==
  /\ \E st \in AllStacks : MergerNew(st)
  /\ EventBuilderNew /\ RunIdle /\ FribIdle /\ PoolIdle /\ HdfOpen /\ SisIdle /\ AuxIdle
NextMerger == MergerGetNextFrame \/ MergerGetNone
SpecMerger == InitMerger /\ [][NextMerger]_vars

\* an EventBuilder given any frames
InitEvb ==
  /\ MergerNew(NoStacks)
  /\ EventBuilderNew /\ RunIdle /\ FribIdle /\ PoolIdle /\ HdfOpen /\ SisIdle /\ AuxIdle
NextEvb == EvbAppendFrame \/ EvbFlushFinalEvent
SpecEvb == InitEvb /\ [][NextEvb]_vars

\* the GET loop of process_run over the frames of a run
InitRun ==
  /\ \E st \in AllStacks : MergerNew(st)
  /\ EventBuilderNew /\ RunStart /\ FribIdle /\ PoolIdle /\ HdfOpen /\ SisIdle /\ AuxIdle
NextRun == RunProcessFrame \/ RunFlushFinalEvent
SpecRun == InitRun /\ [][NextRun]_vars

\* process_evt_data over the ring items of a run
InitFrib ==
  /\ MergerNew(NoStacks)
  /\ EventBuilderNew /\ RunIdle /\ PoolIdle /\ HdfOpen /\ SisIdle /\ AuxIdle
  /\ \E items \in SeqUpTo(RingItems, MaxItems) : FribStart(items)
NextFrib ==
  \/ FribBeginRun \/ FribEndRun \/ FribScalers \/ FribPhysics
  \/ FribIgnore \/ FribInvalid \/ FribNoMoreData
SpecFrib == InitFrib /\ [][NextFrib]_vars

\* a run whose first AsAd stack holds n frames, one per event, of sizes a and
\* b in turn, and whose other stacks are empty
LongStacks(n, a, b) ==
  [s \in StackIds |->
     IF s = 1 THEN [k \in 1..n |-> SizedFrame(k, 1, k, IF k % 2 = 1 THEN a ELSE b)]
     ELSE <<>>]
FrameSizes == {1, 2}
\* bytes of the GRAW files that belong to no frame
SlackBytes == {0, 100}
CopyMetas == {None} \cup {Some(q) : q \in SeqUpTo(0..MaxFileSize, MaxCopyFiles)}

\* the whole of process_run: over a short run with any copy, and over a long
\* run without copy
InitProgress ==
  /\ EventBuilderNew /\ FribIdle /\ PoolIdle /\ HdfOpen /\ SisIdle /\ AuxIdle
  /\ \E n \in 0..MaxFrames, a \in FrameSizes, b \in FrameSizes, slack \in SlackBytes,
        cm \in CopyMetas :
       /\ (n > 2 => cm = None)
       /\ MergerNew(LongStacks(n, a, b))
       /\ RunCalled(cm, StacksBytes(LongStacks(n, a, b), StackIds) + slack)
NextProgress ==
  RunBegin \/ RunCopyFile \/ RunCopyDone \/ RunProcessFrame \/ RunFlushFinalEvent
SpecProgress == InitProgress /\ [][NextProgress]_vars

\* process_run over the Physics items of the evt files, then over the GRAW
\* frames, up to the close of the HDF5 file
PhysicsOnly(n) == [k \in 1..n |-> PlainPhysics]
InitHdf ==
  /\ EventBuilderNew /\ PoolIdle /\ HdfOpen /\ SisIdle /\ AuxIdle
  /\ \E st \in AllStacks : MergerNew(st) /\ RunStart
  /\ \E n \in 0..MaxItems : FribStart(PhysicsOnly(n))
NextHdf == FribPhysics \/ FribNoMoreData \/ RunProcessFrame \/ RunFlushFinalEvent
SpecHdf == InitHdf /\ [][NextHdf]_vars

\* SIS3300Item::extract_data over any flags and any buffer
InitSis ==
  /\ MergerNew(NoStacks)
  /\ EventBuilderNew /\ RunIdle /\ FribIdle /\ PoolIdle /\ HdfOpen /\ AuxIdle
  /\ \E flags \in 0..15, blocks \in SeqUpTo(GroupBlocks, MaxBlocks) :
       SisStart(flags, blocks)
NextSis == SisGroup
SpecSis == InitSis /\ [][NextSis]_vars

\* the words of one SIS3300 group in the buffer: header, group trigger,
\* sample count, two words per sample, trailer
GroupWords(header, trigger_lo, samples, fill, trailer) ==
  <<header, trigger_lo, 0, samples, 0>> \o [i \in 1..(2 * samples) |-> fill]
    \o <<trailer>>
Headers == {SIS_HEADER, 0}
Trailers == {SIS_TRAILER, 0, TAG_COINC}
Pointers == {0, TAG_COINC, TAG_FADC1, TAG_FADC4}
Fills == {0, TAG_COINC}
\* what follows the first module: nothing, or the coincidence register
Followers == {<<>>, <<TAG_COINC, 0>>}

\* a Physics item: a boundary tag covering the payload, event, timestamp,
\* then fadc1 with group 0 enabled, and the followers; at most one of the
\* header and the trailer of the group is invalid
PhysicsWith(group, follow) ==
  LET body == <<0, 0, 0, 0, TAG_FADC1, 1, 0, 0>> \o group \o follow
  IN PhysicsRing(Payload(<<Len(body)>> \o body, FALSE))
Delimiters == {d \in Headers \X Trailers : d[1] = SIS_HEADER \/ d[2] = SIS_TRAILER}
PhysicsRings ==
  {PhysicsWith(GroupWords(d[1], t, n, f, d[2]), follow) :
     d \in Delimiters, t \in Pointers, n \in 0..MaxSamples, f \in Fills,
     follow \in Followers}

\* process_evt_data over a Physics item holding one SIS3300 group, followed
\* by any ring item, in either build profile
InitPhysics ==
  /\ MergerNew(NoStacks)
  /\ EventBuilderNew /\ RunIdle /\ HdfOpen /\ SisIdle /\ AuxIdle
  /\ \E checks \in BOOLEAN :
       PoolStart([first_run_number |-> 0, last_run_number |-> 0, n_threads |-> 1,
                  online |-> FALSE], checks, [r \in {0} |-> "ok"])
  /\ \E first \in PhysicsRings, second \in RingItems : FribStart(<<first, second>>)
NextPhysics == NextFrib
SpecPhysics == InitPhysics /\ [][NextPhysics]_vars

\* an EvtStack over a run directory: whole items that decode, that are too
\* short (ItemSizeError) or that make try_from panic, files that end in the
\* middle of an item, and files whose name does not match
EvtBuffers == {RawBuffer(NO_HEADER_INDEX, PHYSICS_VAL, 0), RawBuffer(4, 0, 0),
               RawBuffer(8, PHYSICS_VAL, 0)}
\* the items of the directory in reading order, each with the file it is in
Placed == {c \in SeqUpTo((1..MaxFiles) \X EvtBuffers, MaxChunks) :
             \A i, j \in 1..Len(c) : i < j => c[i][1] <= c[j][1]}
ChunksOf(c, n) ==
  LET mine == SelectSeq(c, LAMBDA e : e[1] = n) IN [k \in 1..Len(mine) |-> mine[k][2]]
Disks ==
  {[n \in 1..MaxFiles |-> EvtFileOnDisk(ChunksOf(c, n), t[n], m[n])] :
     c \in Placed, t \in [1..MaxFiles -> {0, 6}], m \in [1..MaxFiles -> BOOLEAN]}
InitStack ==
  /\ MergerNew(NoStacks)
  /\ EventBuilderNew /\ RunIdle /\ FribIdle /\ PoolIdle /\ HdfOpen /\ SisIdle
  /\ RawIdle /\ RingIdle /\ MapIdle /\ NoPads /\ SubsetIdle /\ GuiIdle
  /\ \E d \in Disks : StackStart(d, "new")
NextStack == EvtStackNew \/ EvtStackGetNextRingItem
SpecStack == InitStack /\ [][NextStack]_vars

\* process_subset over a subset of runs 1..n, each with its directory there
\* or missing and the step of process_run that fails for it, if any
CopyConfigs == {[copy |-> c, delete_copied |-> d, online |-> FALSE] : c, d \in BOOLEAN}
RunInputs == {<<"ok", f>> : f \in Faults \cup {"none"}} \cup {<<"missing", "none">>}
InitSubset ==
  /\ MergerNew(NoStacks)
  /\ EventBuilderNew /\ RunIdle /\ FribIdle /\ PoolIdle /\ HdfOpen /\ SisIdle
  /\ RawIdle /\ RingIdle /\ MapIdle /\ NoPads /\ StackIdle /\ GuiIdle
  /\ \E cfg \in CopyConfigs, in \in SeqUpTo(RunInputs, MaxSubset) :
       SubsetStart(cfg, [k \in 1..Len(in) |-> in[k][1]], [k \in 1..Len(in) |-> in[k][2]],
                   [k \in 1..Len(in) |-> k])
NextSubset == SubsetTurn \/ SubsetReturn
SpecSubset == InitSubset /\ [][NextSubset]_vars

\* the GUI: render ticks, clicks on Run with any configuration, and the
\* workers sending and ending in any order
InitGui ==
  /\ MergerNew(NoStacks)
  /\ EventBuilderNew /\ RunIdle /\ FribIdle /\ PoolIdle /\ HdfOpen /\ SisIdle
  /\ RawIdle /\ RingIdle /\ MapIdle /\ NoPads /\ StackIdle /\ SubsetIdle
  /\ \E cfg \in GuiConfigs : GuiStart(cfg, "poll")
NextGui ==
  \/ GuiTryRecv \/ GuiRunClicked \/ GuiNoClick
  \/ \E k \in 1..MaxWorkers : k <= Len(gui_threads) /\ GuiWorkerSend(k)
  \/ \E k \in 1..MaxWorkers : k <= Len(gui_threads) /\ GuiWorkerFinish(k)
SpecGui == InitGui /\ [][NextGui]_vars

\* RingItem::try_from over raw buffers of any length, type byte and byte 8
TypeBytes == {BEGIN_RUN_VAL, END_RUN_VAL, DUMMY_VAL, SCALERS_VAL, PHYSICS_VAL,
              COUNTER_VAL, 0}
InitRaw ==
  /\ MergerNew(NoStacks)
  /\ EventBuilderNew /\ RunIdle /\ FribIdle /\ PoolIdle /\ HdfOpen /\ SisIdle
  /\ RingIdle /\ MapIdle /\ NoPads /\ RestIdle
  /\ \E len \in 0..MaxBufLen, b4 \in TypeBytes, b8 \in {0, RING_HEADER_PRESENT} :
       RawStart(RawBuffer(len, b4, b8))
NextRaw == RawTryFrom
SpecRaw == InitRaw /\ [][NextRaw]_vars

\* remove_boundaries over any bytes: words that are small boundary tags,
\* a tag with bits above the low 12, or data, and maybe one more byte
WordValues == {0, 1, 2, 4097, 4095}
InitBoundaries ==
  /\ MergerNew(NoStacks)
  /\ EventBuilderNew /\ RunIdle /\ FribIdle /\ PoolIdle /\ HdfOpen /\ SisIdle
  /\ RawIdle /\ MapIdle /\ NoPads /\ RestIdle
  /\ \E words \in SeqUpTo(WordValues, MaxWords), odd \in BOOLEAN :
       RingNew(Payload(words, odd))
NextBoundaries == RingRemoveBoundaries
SpecBoundaries == InitBoundaries /\ [][NextBoundaries]_vars

\* GetChannelMap::new over any CSV of at most MaxRows rows
Rows ==
  {Row(n, 0, asad, aget, channel, det) :
     n \in {4, 5, 7}, asad \in {0, 1}, aget \in {0, 1}, channel \in {0, 1, 100, 256},
     det \in {1, 2}}
InitMap ==
  /\ MergerNew(NoStacks)
  /\ EventBuilderNew /\ RunIdle /\ FribIdle /\ PoolIdle /\ HdfOpen /\ SisIdle
  /\ RawIdle /\ RingIdle /\ NoPads /\ RestIdle
  /\ \E rows \in SeqUpTo(Rows, MaxRows) : MapStart(rows)
NextMap == GetChannelMapNew
SpecMap == InitMap /\ [][NextMap]_vars

\* the maps an EventBuilder is made with: a map of three channels, one of
\* them a fixed-pattern-noise channel, a map of one row whose channel is
\* 100, and the empty map
PadRows(n) ==
  CASE n = 1 -> <<Row(5, 0, 0, 0, 0, 1), Row(5, 0, 0, 1, 0, 2), Row(5, 0, 0, 0, 11, 3)>>
    [] n = 2 -> <<Row(5, 0, 0, 0, 100, 4)>>
    [] OTHER -> <<>>
PadMaps == {LoadRows(PadRows(n), 1, <<>>).val : n \in 1..3}

\* an EventBuilder given frames that hold samples
InitTraces ==
  /\ MergerNew(NoStacks)
  /\ EventBuilderNew /\ RunIdle /\ FribIdle /\ PoolIdle /\ HdfOpen /\ SisIdle
  /\ RawIdle /\ RingIdle /\ MapIdle /\ RestIdle
  /\ \E map \in PadMaps : PadMapIs(map)
NextTraces == EvbAppendData \/ EvbFlushFinalEvent
SpecTraces == InitTraces /\ [][NextTraces]_vars

\* the GUI's pool of workers over the runs first..=last
InitPool ==
  /\ MergerNew(NoStacks)
  /\ EventBuilderNew /\ RunIdle /\ FribIdle /\ HdfOpen /\ SisIdle /\ AuxIdle
  /\ \E cfg \in Configs, checks \in BOOLEAN :
       \E dirs \in [RunsOf(cfg.first_run_number, cfg.last_run_number) ->
                       {"missing", "ok", "bad"}] :
         PoolStart(cfg, checks, dirs)
NextPool ==
  \/ StartWorkers
  \/ \E k \in 1..MaxThreads : k <= Len(threads) /\ WorkerStep(k)
  \/ StopWorkers
SpecPool == InitPool /\ [][NextPool]_vars

Init == InitRun
Next == NextRun
Spec == SpecRun

(* ------------------------------- claims -------------------------------- *)
AllExhausted(st) == \A s \in StackIds : st[s] = <<>>
StacksSorted == \A s \in StackIds : NonDecreasing(IdsOf(stacks0[s]))

\* C1 as stated: whatever the AsAd stacks hold, the frames returned by
\* successive get_next_frame calls are in non-decreasing event_id order.
C1_AnyStacksNonDecreasing == NonDecreasing(IdsOf(emitted))

\* C1 amended: when every AsAd stack holds its own frames in non-decreasing
\* event_id order, the frames returned by successive get_next_frame calls are
\* in non-decreasing event_id order.
C1_SortedStacksNonDecreasing == StacksSorted => NonDecreasing(IdsOf(emitted))

C1_Witness ==
  /\ StacksSorted
  /\ merger_ret.called /\ merger_ret.val = None
  /\ Len(emitted) >= 4
  /\ \E i \in 1..(Len(emitted) - 2) :
       /\ emitted[i].stack /= emitted[i + 1].stack
       /\ emitted[i + 1].stack /= emitted[i + 2].stack
       /\ emitted[i].event_id < emitted[i + 2].event_id

\* C2: every get_next_frame call returns the next frame of one stack and
\* removes it from that stack, so the frames returned so far followed by the
\* frames a stack still holds are that stack's frames in their own order
\* (every frame exactly once), and the call returns None exactly when every
\* stack is exhausted, which is exactly when the heap is empty.
C2_EveryFrameOnce ==
  [][/\ \A s \in StackIds : FramesOfStack(emitted', s) \o stacks'[s] = stacks0[s]
     /\ Len(emitted') + SumLen(stacks', StackIds) = SumLen(stacks0, StackIds)
     /\ (merger_ret'.val = None) <=> AllExhausted(stacks)
     /\ (heap = {}) <=> AllExhausted(stacks)
     /\ IsSome(merger_ret'.val) => emitted' = Append(emitted, Unwrap(merger_ret'.val))
     /\ merger_ret'.val = None => emitted' = emitted]_vars

C2_Witness ==
  /\ merger_ret.called /\ merger_ret.val = None
  /\ Len(emitted) >= 4
  /\ \A s \in StackIds : Len(FramesOfStack(emitted, s)) >= 2
  /\ \E i \in 1..(Len(emitted) - 1) : emitted[i].event_id > emitted[i + 1].event_id

DistinctIds(frames) == {frames[k].event_id : k \in 1..Len(frames)}
EventIdsOf(evs) == [k \in 1..Len(evs) |-> evs[k].event_id]

\* C3: after a non-decreasing stream of frames was passed to append_frame and
\* flush_final_event was called, the events returned are one per distinct
\* event_id, in strictly ascending event_id order, each built from exactly
\* the frames of the stream that carry its id.
C3_OneEventPerId ==
  (op = "flush_final_event" /\ NonDecreasing(IdsOf(fed))) =>
    LET all == events \o Emitted(ret) IN
      /\ Len(all) = Cardinality(DistinctIds(fed))
      /\ StrictlyAscending(EventIdsOf(all))
      /\ \A k \in 1..Len(all) :
           /\ all[k].event_id \in DistinctIds(fed)
           /\ all[k].frames = SelectFrames(fed, all[k].event_id)
           /\ all[k].nframes = Len(all[k].frames)

C3_Witness ==
  /\ op = "flush_final_event" /\ NonDecreasing(IdsOf(fed))
  /\ Len(events) >= 2
  /\ \E k \in 1..Len(events) : events[k].nframes >= 2
  /\ IsSome(ret.val)

\* C4: append_frame with a frame whose event_id is greater than
\* current_event_id returns Some(event), the event built from exactly the
\* frames accumulated so far, and leaves frame_stack holding only the new
\* frame and current_event_id equal to its id; with an equal id, or with
\* current_event_id unset, it pushes the frame and returns None.
C4_AppendFrameBranches ==
  [][op' = "append_frame" =>
       /\ (IsSome(current_event_id) /\ arg'.event_id > Unwrap(current_event_id)) =>
            /\ ret'.tag = "Ok" /\ IsSome(ret'.val)
            /\ Unwrap(ret'.val).frames = frame_stack
            /\ Unwrap(ret'.val).nframes = Len(frame_stack)
            /\ Unwrap(ret'.val).event_id = Unwrap(current_event_id)
            /\ frame_stack' = <<arg'>>
            /\ current_event_id' = Some(arg'.event_id)
       /\ (~IsSome(current_event_id) \/ arg'.event_id = Unwrap(current_event_id)) =>
            /\ ret' = OkR(None)
            /\ frame_stack' = Append(frame_stack, arg')
            /\ current_event_id' = Some(arg'.event_id)]_vars

C4_Witness ==
  /\ op = "append_frame"
  /\ ret.tag = "Ok" /\ IsSome(ret.val)
  /\ Unwrap(ret.val).nframes >= 2
  /\ frame_stack = <<arg>>
  /\ Len(events) >= 2

\* C5: append_frame with a frame whose event_id f is smaller than the
\* current_event_id c fails with EventOutOfOrder(f, c) and emits no event.
C5_OutOfOrderFails ==
  [][(/\ op' = "append_frame"
      /\ IsSome(current_event_id)
      /\ arg'.event_id < Unwrap(current_event_id)) =>
       /\ ret' = ErrR(EventOutOfOrder(arg'.event_id, Unwrap(current_event_id)))
       /\ events' = events]_vars

C5_Witness ==
  /\ op = "append_frame"
  /\ ret = ErrR(EventOutOfOrder(2, 3))
  /\ arg.event_id = 2
  /\ current_event_id = Some(3)
  /\ Len(events) >= 1

\* C6: flush_final_event returns the event built from the accumulated frames
\* whenever frame_stack is non-empty, and None only when it is empty.
C6_FlushFinalEvent ==
  [][op' = "flush_final_event" =>
       IF frame_stack /= <<>>
       THEN /\ IsSome(ret'.val)
            /\ Unwrap(ret'.val).frames = frame_stack
            /\ Unwrap(ret'.val).nframes = Len(frame_stack)
            /\ Unwrap(ret'.val).event_id = frame_stack[1].event_id
       ELSE ret'.val = None]_vars

C6_Witness ==
  /\ op = "flush_final_event"
  /\ IsSome(ret.val)
  /\ Unwrap(ret.val).frames = frame_stack
  /\ Len(frame_stack) >= 2
  /\ Len(events) >= 1

\* C7: every frame in frame_stack has the event_id current_event_id,
\* frame_stack is empty exactly when current_event_id is unset, and building
\* an Event from the stack never fails with MismatchedEventID.
C7_StackSharesEventId ==
  /\ \A k \in 1..Len(frame_stack) :
       IsSome(current_event_id) /\ frame_stack[k].event_id = Unwrap(current_event_id)
  /\ (frame_stack = <<>>) <=> (current_event_id = None)
  /\ EventNew(frame_stack).tag = "Ok"
  /\ ret.tag = "Err" => ret.err[1] /= "MismatchedEventID"

C7_Witness ==
  /\ Len(frame_stack) >= 2
  /\ Len(events) >= 1
  /\ op = "append_frame" /\ ret = OkR(None)

\* C8: process_run writes GET events in strictly ascending event_id order,
\* the k-th written event (k = 0, 1, ...) under events/event_k, and the
\* finally flushed event takes the counter after the last event emitted by
\* append_frame.
C8_GetEventsInOrder ==
  /\ \A k \in 1..Len(written) : written[k].counter = k - 1
  /\ StrictlyAscending([k \in 1..Len(written) |-> written[k].event.event_id])
  /\ pc = "merging" => (Len(written) = event_counter /\ Len(written) = Len(events))
  /\ (pc = "done" /\ IsSome(ret.val)) =>
       /\ Len(written) = Len(events) + 1
       /\ written[Len(written)].event = Unwrap(ret.val)
       /\ written[Len(written)].counter = Len(events)
  /\ \A k \in 1..Len(events) : k <= Len(written) /\ written[k].event = events[k]

C8_Witness ==
  /\ pc = "done"
  /\ IsSome(ret.val)
  /\ Len(written) >= 2
  /\ written[Len(written)].counter = Len(written) - 1
  /\ Len(events) >= 1
  /\ \E k \in 1..Len(written) : written[k].event.nframes >= 2

\* position of the first EndRun item of the evt stack, 0 when it has none
FirstEndRun ==
  LET S == {k \in 1..Len(evt_items) : evt_items[k].ring_type = "EndRun"}
  IN IF S = {} THEN 0 ELSE CHOOSE k \in S : \A j \in S : k <= j

\* position of the most recent BeginRun item before position k, 0 when none
MostRecentBeginRun(k) ==
  LET S == {j \in 1..(k - 1) : evt_items[j].ring_type = "BeginRun"}
  IN IF S = {} THEN 0 ELSE CHOOSE j \in S : \A i \in S : i <= j

WritesOf(call) == {i \in 1..Len(frib_writes) : frib_writes[i].call = call}
EndRunTaken == FirstEndRun > 0 /\ frib_pos >= FirstEndRun

\* nothing that follows position k was taken, decoded or passed to the writer
NothingAfter(k) ==
  /\ frib_pos = k
  /\ \A i \in 1..Len(decoded) : decoded[i] <= k
  /\ \A i \in 1..Len(frib_writes) : frib_writes[i].item <= k

RunInfoWrittenOnce(k) ==
  /\ Cardinality(WritesOf("write_frib_runinfo")) = 1
  /\ \A i \in WritesOf("write_frib_runinfo") :
       /\ frib_writes[i].begin = MostRecentBeginRun(k)
       /\ frib_writes[i].end = k
       /\ frib_writes[i].item = k
       /\ i = Len(frib_writes)

ItemsBefore(k, t) == Cardinality({j \in 1..(k - 1) : evt_items[j].ring_type = t})

\* C10: the n-th Scalers item processed is written with scalers counter n-1
\* and the n-th Physics item processed with event counter n-1, each counter
\* advanced only by its own item type, so the physics events are written in
\* file order under event_0, event_1, ...
C10_IndependentCounters ==
  /\ \A i \in WritesOf("write_frib_scalers") :
       frib_writes[i].counter = ItemsBefore(frib_writes[i].item, "Scalers")
  /\ \A i \in WritesOf("write_frib_physics") :
       frib_writes[i].counter = ItemsBefore(frib_writes[i].item, "Physics")
  /\ \A i, j \in WritesOf("write_frib_physics") :
       i < j => /\ frib_writes[i].item < frib_writes[j].item
                /\ frib_writes[i].counter < frib_writes[j].counter
  /\ scaler_counter = Cardinality(WritesOf("write_frib_scalers"))
  /\ frib_event_counter = Cardinality(WritesOf("write_frib_physics"))
  /\ \A k \in 1..frib_pos :
       /\ (evt_items[k].ring_type = "Scalers" /\ ScalersItemTryFrom(evt_items[k], k).tag = "Ok")
            => \E i \in WritesOf("write_frib_scalers") : frib_writes[i].item = k
       /\ (evt_items[k].ring_type = "Physics" /\ ProcessPhysics(evt_items[k], k).tag = "Ok")
            => \E i \in WritesOf("write_frib_physics") : frib_writes[i].item = k

C10_Witness ==
  /\ Len(frib_writes) >= 4
  /\ frib_writes[1].call = "write_frib_scalers"
  /\ frib_writes[2].call = "write_frib_physics"
  /\ frib_writes[3].call = "write_frib_physics" /\ frib_writes[3].counter = 1
  /\ frib_writes[4].call = "write_frib_scalers" /\ frib_writes[4].counter = 1

\* the runs pushed to subset k (counted from 0) by the last create_subsets
SubsetRuns(k) == {subsets[k + 1][j] : j \in 1..Len(subsets[k + 1])}
SubsetsMade == app_pc \in {"running", "joined", "panicked"}

\* C11: for every first_run_number <= last_run_number and n_threads >= 1,
\* create_subsets returns n_threads subsets in which the run at position i of
\* first..=last is in subset i mod n_threads; the subsets are pairwise
\* disjoint, their union is first..=last and their sizes differ by at most 1.
C11_RoundRobinPartition ==
  (SubsetsMade /\ config.first_run_number <= config.last_run_number) =>
    /\ app_pc /= "panicked"
    /\ Len(subsets) = config.n_threads
    /\ \A i \in 0..(config.last_run_number - config.first_run_number) :
         (config.first_run_number + i) \in SubsetRuns(i % config.n_threads)
    /\ \A k \in 0..(config.n_threads - 1) : \A l \in 0..(config.n_threads - 1) :
         /\ k /= l => SubsetRuns(k) \cap SubsetRuns(l) = {}
         /\ Len(subsets[k + 1]) - Len(subsets[l + 1]) <= 1
         /\ Cardinality(SubsetRuns(k)) = Len(subsets[k + 1])
    /\ UNION {SubsetRuns(k) : k \in 0..(config.n_threads - 1)}
         = RunsOf(config.first_run_number, config.last_run_number)

NumberOfRuns == Cardinality(RunsOf(config.first_run_number, config.last_run_number))
MinOf(a, b) == IF a <= b THEN a ELSE b
\* the subset indices for which a thread was spawned
SpawnedFor == {threads[k].worker_id : k \in 1..Len(threads)}

\* C12: a worker is spawned for exactly the non-empty subsets returned by
\* create_subsets, so the number of workers is min(n_threads, number of runs
\* in first..=last); with first > last every subset is empty, no worker is
\* spawned and no run is processed.
C12_WorkersForNonEmptySubsets ==
  SubsetsMade =>
    /\ SpawnedFor = {k \in 0..(Len(subsets) - 1) : subsets[k + 1] /= <<>>}
    /\ \A k \in 1..Len(threads) : threads[k].subset = subsets[threads[k].worker_id + 1]
    /\ Len(threads) = MinOf(config.n_threads, NumberOfRuns)
    /\ config.first_run_number > config.last_run_number =>
         /\ \A k \in 1..Len(subsets) : subsets[k] = <<>>
         /\ threads = <<>>

\* the runs of a subset that does_run_exist accepts, in subset order
RECURSIVE ExistingRuns(_)
ExistingRuns(sub) ==
  IF sub = <<>> THEN <<>>
  ELSE IF DoesRunExist(config, run_dirs, Head(sub))
       THEN <<Head(sub)>> \o ExistingRuns(Tail(sub))
       ELSE ExistingRuns(Tail(sub))
Returned(k) == threads[k].result \in {"ok", "err"}
SomeFailed == \E k \in 1..Len(threads) : threads[k].result = "err"

\* C16: a fatal error in one worker does not stop any other worker: a worker
\* that has not returned can always take its next step, a worker that
\* returned without an error of its own has processed every existing run of
\* its subset, and show_error_window is set only by the join of the workers.
C16_ErrorStopsOnlyItsWorker ==
  /\ \A k \in 1..Len(threads) :
       /\ (app_pc = "running" /\ ~Returned(k)) => ENABLED WorkerStep(k)
       /\ threads[k].result = "ok" => threads[k].processed = ExistingRuns(threads[k].subset)
       /\ threads[k].result = "err" =>
            \E n \in 1..Len(threads[k].subset) :
              /\ ~ProcessRunOk(run_dirs, threads[k].subset[n])
              /\ threads[k].processed = ExistingRuns(SubSeq(threads[k].subset, 1, n))
  /\ show_error_window => app_pc = "joined"
  /\ app_pc = "joined" => (show_error_window <=> SomeFailed)

C16_Witness ==
  /\ app_pc = "joined"
  /\ show_error_window
  /\ \E k \in 1..Len(threads) : \E l \in 1..Len(threads) :
       /\ threads[k].result = "err"
       /\ threads[l].result = "ok"
       /\ Len(threads[l].processed) >= 2

SeqToSet(q) == {q[j] : j \in 1..Len(q)}
\* thread k has handled the run at position n of its subset, whose GET
\* directory is missing
HandledMissing(k, n) ==
  /\ n <= threads[k].pos
  /\ run_dirs[threads[k].subset[n]] = "missing"
\* that run was skipped without an error and the thread went on
SkippedAndWentOn(k, n) ==
  /\ threads[k].subset[n] \in SeqToSet(threads[k].skipped)
  /\ threads[k].subset[n] \notin SeqToSet(threads[k].processed)
  /\ (threads[k].result = "err" => n < threads[k].pos)
  /\ (threads[k].result = "ok" => threads[k].pos = Len(threads[k].subset))

RECURSIVE OfColor(_, _)
OfColor(msgs, color) ==
  IF msgs = <<>> THEN <<>>
  ELSE IF Head(msgs).color = color
       THEN <<Head(msgs)>> \o OfColor(Tail(msgs), color)
       ELSE OfColor(Tail(msgs), color)
Zeros(msgs) == {k \in 1..Len(msgs) : IsZero(msgs[k].progress)}
Ones(msgs) == {k \in 1..Len(msgs) : IsOne(msgs[k].progress)}
Phases == IF IsSome(copy_meta) THEN {"GREEN", "CYAN"} ELSE {"CYAN"}
FirstZeroLastOne(msgs) ==
  /\ Len(msgs) >= 2
  /\ IsZero(msgs[1].progress)
  /\ IsOne(msgs[Len(msgs)].progress)
CopyingBeforeMerging ==
  \A i \in 1..Len(sent) : \A j \in 1..Len(sent) :
    (sent[i].color = "GREEN" /\ sent[j].color = "CYAN") => i < j

\* C13 as stated: for every run that process_run completes successfully, in
\* each phase (Copying when a copy path is configured, then Merging) the first
\* WorkerStatus sent has progress 0.0 and the last has progress 1.0, each sent
\* exactly once, and all Copying messages precede all Merging messages.
C13_ZeroAndOneOncePerPhase ==
  pc = "done" =>
    /\ \A c \in {"GREEN", "CYAN"} : c \notin Phases => OfColor(sent, c) = <<>>
    /\ \A c \in Phases :
         /\ FirstZeroLastOne(OfColor(sent, c))
         /\ Cardinality(Zeros(OfColor(sent, c))) = 1
         /\ Cardinality(Ones(OfColor(sent, c))) = 1
    /\ CopyingBeforeMerging

\* C13 amended: for every run that process_run completes successfully, in
\* each phase the first WorkerStatus sent has progress 0.0 and the last has
\* progress 1.0, and all Copying messages precede all Merging messages; in the
\* Merging phase 0.0 and 1.0 are each sent exactly once, while in the Copying
\* phase the message sent after each copied file carries copied/total bytes,
\* so that 1.0 is sent at least twice when the total is not 0.
C13_ZeroFirstOneLast ==
  pc = "done" =>
    /\ \A c \in {"GREEN", "CYAN"} : c \notin Phases => OfColor(sent, c) = <<>>
    /\ \A c \in Phases : FirstZeroLastOne(OfColor(sent, c))
    /\ Cardinality(Zeros(OfColor(sent, "CYAN"))) = 1
    /\ Cardinality(Ones(OfColor(sent, "CYAN"))) = 1
    /\ (IsSome(copy_meta) /\ SumSizes(Unwrap(copy_meta)) > 0) =>
         Cardinality(Ones(OfColor(sent, "GREEN"))) >= 2
    /\ CopyingBeforeMerging

C13_Witness ==
  /\ pc = "done"
  /\ IsSome(copy_meta)
  /\ Len(Unwrap(copy_meta)) = 2
  /\ Len(OfColor(sent, "GREEN")) = 4
  /\ Len(OfColor(sent, "CYAN")) >= 3

\* the messages of the GET loop itself: the Merging messages but the opening
\* 0.0 and, once the run is done, the closing 1.0
Intermediate ==
  LET m == OfColor(sent, "CYAN")
  IN IF pc = "done" THEN SubSeq(m, 2, Len(m) - 1) ELSE SubSeq(m, 2, Len(m))
InGetLoop == pc \in {"merging", "done"}
Consumed == SumBytes(emitted)
\* progress after n additions of flush_frac to 0.0
RECURSIVE NSteps(_)
NSteps(n) == IF n = 0 THEN 0 ELSE F32Add(NSteps(n - 1), FlushFrac)

\* C14 as stated: during merging a progress message is emitted each time the
\* cumulative bytes consumed cross a 1% boundary of the run's total size:
\* after consuming a fraction x of the total, exactly floor(100*x)
\* intermediate messages have been sent and the last one carries progress
\* floor(100*x)/100.
C14_OneMessagePerPercent ==
  (InGetLoop /\ total_data_size > 0) =>
    LET n == (100 * Consumed) \div total_data_size
    IN /\ Len(Intermediate) = n
       /\ n >= 1 => Intermediate[Len(Intermediate)].progress = F32(NSteps(n))

\* C14 amended: during merging a progress message is emitted each time the
\* bytes consumed since the previous message exceed flush_val = floor(0.01 *
\* total), the count restarting from 0 after each message: after n
\* intermediate messages at least n * (flush_val + 1) bytes have been
\* consumed, n is at most 100, and the n-th message carries the progress
\* accumulated in n f32 additions of 0.01.
C14_MessagePerFlushVal ==
  InGetLoop =>
    LET n == Len(Intermediate)
        flush_val == FlushVal(total_data_size)
    IN /\ count <= flush_val
       /\ n * (flush_val + 1) + count <= Consumed
       /\ n <= 100
       /\ progress = NSteps(n)
       /\ n >= 1 => Intermediate[n].progress = F32(NSteps(n))

C14_Witness ==
  /\ pc = "merging"
  /\ Len(Intermediate) >= 2
  /\ count > 0
  /\ Len(Intermediate) < (100 * Consumed) \div total_data_size

\* C15: every WorkerStatus sent by a worker has progress in [0,1]; in the
\* merging phase the progress accumulated in 0.01 steps never exceeds 1.0,
\* for any total data size and any frame sizes whose sum is at most the total.
C15_ProgressInUnitInterval ==
  /\ \A k \in 1..Len(sent) : InUnitInterval(sent[k].progress)
  /\ progress <= F32One

IsClosed == IsSome(closed)
GetCounters == {written[k].counter : k \in 1..Len(written)}
HighestGetCounter == CHOOSE c \in GetCounters : \A d \in GetCounters : d <= c
\* the timestamp of the GET event written with counter c
GetTimestamp(c) ==
  LET k == CHOOSE i \in 1..Len(written) : written[i].counter = c
  IN written[k].event.timestamp

\* C18: when the writer is closed after a run in which at least one GET event
\* was written, min_event is 0, max_event is the highest GET counter written,
\* min_get_ts is the timestamp of the GET event written with counter 0 and
\* max_get_ts is the timestamp of the GET event written with the highest
\* counter, a run with a single GET event included.
C18_CloseAttributes ==
  (IsClosed /\ Len(written) >= 1) =>
    /\ Unwrap(closed).min_event = 0
    /\ Unwrap(closed).max_event = HighestGetCounter
    /\ Unwrap(closed).min_get_ts = GetTimestamp(0)
    /\ Unwrap(closed).max_get_ts = GetTimestamp(HighestGetCounter)

NumberOfGetEvents == Len(written)
NumberOfFribEvents ==
  Cardinality({k \in 1..Len(frib_writes) : frib_writes[k].call = "write_frib_physics"})

\* C19: at close, a warning is logged whenever the number of GET events
\* written differs from the number of FRIB physics events written (0 FRIB
\* events against 1 GET event included), and max_event is taken from the GET
\* events in every case.
C19_WarningWhenCountsDiffer ==
  IsClosed =>
    /\ NumberOfGetEvents /= NumberOfFribEvents => Unwrap(closed).warned
    /\ Unwrap(closed).max_event = writer.last_get_event

\* C20: for each group g in 0..4 and every value of group_enable_flags, the
\* SIS3300 decoder reads the group's header, trigger, sample count, data and
\* trailer exactly when bit g of group_enable_flags is set; when bit g is
\* clear it consumes no bytes for the group and zero-fills the group's two
\* channels.
C20_GroupReadIffBitSet ==
  \A g \in 0..3 :
    g < sis.group =>
      /\ g \in sis.read <=> BitSet(sis.flags, g)
      /\ ~BitSet(sis.flags, g) =>
           /\ g \in sis.skipped
           /\ sis.traces[2 * g].fill = "zeros"
           /\ sis.traces[2 * g + 1].fill = "zeros"

\* the decoding of a Physics item logged an invalid SIS3300 header or trailer
LoggedMismatch(ring) ==
  LET rb == RemoveBoundaries(ring.bytes)
  IN ~rb.panicked /\ PhysicsParse(rb.bytes.words, overflow_checks).logged
PhysicsWritten(k) ==
  \E i \in WritesOf("write_frib_physics") : frib_writes[i].item = k

\* C21: a SIS3300 group header different from 0xFADC or a trailer different
\* from 0xFFFF never makes the run fail: the physics item is still written
\* and the FRIB builder goes on with the ring items that follow.
C21_MismatchKeepsRun ==
  \A k \in 1..frib_pos :
    (evt_items[k].ring_type = "Physics" /\ LoggedMismatch(evt_items[k])) =>
      /\ PhysicsWritten(k)
      /\ frib_pc \in {"failed", "panicked"} => frib_pos > k

\* C22: for every raw buffer, RingItem::try_from takes the ring type from
\* the byte at offset 4, strips a 28-byte prefix when the byte at offset 8
\* equals 20 and a 12-byte prefix otherwise, and returns ItemSizeError (never
\* panics and never strips the wrong prefix) for any buffer too short to
\* hold the bytes it needs.
C22_TryFromStripsOrItemSizeError ==
  raw.ret /= None =>
    LET b == raw.buffer
        r == Unwrap(raw.ret)
        header == b.len > 8 /\ b.b8 = 20
        prefix == IF header THEN 28 ELSE 12
    IN IF b.len < prefix
       THEN r.tag = "Err" /\ r.err = ItemSizeError
       ELSE /\ r.tag = "Ok"
            /\ r.val.ring_type = RingTypeFrom(b.b4)
            /\ r.val.stripped = prefix
            /\ r.val.size = b.len

\* the boundary positions of the words w, counted in the original words:
\* the first is q, the next follows the tag and the words it covers
RECURSIVE Boundaries(_, _)
Boundaries(w, q) ==
  IF q > Len(w) THEN {}
  ELSE {q} \cup Boundaries(w, q + 1 + (w[q] % 4096))
\* the words of w outside the positions S, in their order
RECURSIVE Without(_, _)
Without(w, S) ==
  IF w = <<>> THEN <<>>
  ELSE LET rest == Without(SubSeq(w, 1, Len(w) - 1), S)
       IN IF Len(w) \in S THEN rest ELSE Append(rest, w[Len(w)])

\* C23: for every physics payload, remove_boundaries terminates and removes
\* exactly the 2 tag bytes found at each boundary position (p starts at 0;
\* after removing the tag at p, p advances by 2*(tag & 0xfff)) until p is at
\* or past the payload length, leaving all other bytes in their original
\* order; on a payload whose single tag covers the whole remainder only
\* that tag is removed.
C23_RemoveBoundaries ==
  ring_item.stage /= "new" =>
    LET w == ring_item.bytes0.words
    IN /\ ring_item.stage = "stripped"
       /\ ring_item.bytes.words = Without(w, Boundaries(w, 1))
       /\ ring_item.bytes.odd = ring_item.bytes0.odd
       /\ (w /= <<>> /\ w[1] % 4096 >= Len(w) - 1) => ring_item.bytes.words = Tail(w)

\* C24: channel map round-trip: after loading any accepted CSV, for every
\* row of the CSV get_hardware_id(cobo, asad, aget, channel) returns an entry
\* whose address fields and detector equal those parsed from that row.
C24_ChannelMapRoundTrip ==
  (channel_map.ret /= None /\ Unwrap(channel_map.ret).tag = "Ok") =>
    \A k \in 1..Len(channel_map.rows) :
      LET row == channel_map.rows[k]
          id == get_hardware_id(Unwrap(channel_map.ret).val,
                                row.cobo, row.asad, row.aget, row.channel)
      IN /\ IsSome(id)
         /\ Unwrap(id) = HardwareID(row.cobo, row.asad, row.aget, row.channel,
                                     DetectorOf(row))

\* the events the builder has produced: those returned by append_frame and
\* the one returned by the last flush_final_event
Produced ==
  {events[k] : k \in 1..Len(events)}
  \cup (IF op = "flush_final_event" /\ IsSome(ret.val) THEN {Unwrap(ret.val)} ELSE {})

\* the hardware address of a sample of a frame, and of an entry of the map
SampleAddress(frame, datum) ==
  <<FrameCoboId(frame), FrameAsadId(frame), datum.aget_id, datum.channel>>
AddressOf(hw_id) == <<hw_id.cobo_id, hw_id.asad_id, hw_id.aget_id, hw_id.channel>>
InPadMap(address) == \E u \in DOMAIN pad_map : AddressOf(pad_map[u]) = address

\* the samples of the frames, in the order seen, that are for the address
\* and the time bucket t
RECURSIVE SamplesFor(_, _, _)
SamplesFor(frames, address, t) ==
  IF frames = <<>> THEN <<>>
  ELSE LET f == Head(frames)
           here == SelectSeq(f.data, LAMBDA d : /\ SampleAddress(f, d) = address
                                                /\ d.time_bucket_id = t
                                                /\ d.channel \notin FPN_CHANNELS)
       IN here \o SamplesFor(Tail(frames), address, t)
LastSample(frames, address, t) ==
  LET q == SamplesFor(frames, address, t)
  IN IF q = <<>> THEN 0 ELSE q[Len(q)].sample

\* C25: for any event produced by the event builder, every trace has
\* exactly 512 entries, trace[t] of a hardware address holds the amplitude of
\* the last sample seen for that address and time bucket t (0 where there was
\* none), and samples on fixed-pattern-noise channels or on addresses absent
\* from the channel map contribute to no trace.
C25_TracesHoldLastSamples ==
  \A ev \in Produced :
    /\ \A hw_id \in DOMAIN ev.traces :
         /\ ev.traces[hw_id].len = 512
         /\ DOMAIN ev.traces[hw_id].at \subseteq 0..511
         /\ InPadMap(AddressOf(hw_id))
         /\ \A t \in 0..511 :
              TraceAt(ev.traces[hw_id], t) = LastSample(ev.frames, AddressOf(hw_id), t)
    /\ \A k \in 1..Len(ev.frames) : \A i \in 1..Len(ev.frames[k].data) :
         LET d == ev.frames[k].data[i]
             address == SampleAddress(ev.frames[k], d)
         IN (d.channel \notin FPN_CHANNELS /\ InPadMap(address))
              => \E hw_id \in DOMAIN ev.traces : AddressOf(hw_id) = address
\* the builder took ring item r off the stack in this step
FribTook(types) ==
  /\ frib_pc = "running"
  /\ frib_pos < Len(evt_items)
  /\ frib_pos' = frib_pos + 1
  /\ evt_items[frib_pos + 1].ring_type \in types

\* the step made no writer call and left run_info and both counters alone
FribUntouched ==
  UNCHANGED <<run_info, scaler_counter, frib_event_counter, frib_writes, writer>>

\* C26: for a Dummy or Counter ring item the FRIB builder makes no writer call
\* and leaves run_info, scaler_counter and event_counter unchanged; for a ring
\* item of unrecognised type it only logs and goes on with the next item
\* instead of terminating or failing
C26_IgnoredItemsChangeNothing ==
  [][(FribTook(UndecodedTypes) => FribUntouched /\ frib_pc' = "running")]_vars


\* the ring items of file n, each named by the file and its place in it
ItemsOfFile(n) ==
  LET c == disk[n].chunks
      at == [k \in 1..Len(c) |-> <<n, k>>]
  IN SelectSeq(at, LAMBDA e : RingItemTryFrom(c[e[2]]).tag = "Ok")

\* the ring items of the files first..MaxFiles of the run, in name order
RECURSIVE RunItemsFrom(_)
RunItemsFrom(first) ==
  IF first > MaxFiles THEN <<>>
  ELSE (IF disk[first].matches THEN ItemsOfFile(first) ELSE <<>>)
       \o RunItemsFrom(first + 1)

\* the ring items the first n calls yielded
Yielded(n) ==
  LET some == SelectSeq(SubSeq(returned, 1, n),
                        LAMBDA r : r.tag = "Ok" /\ IsSome(r.val))
  IN [k \in 1..Len(some) |-> Unwrap(some[k].val)]

IsPrefixOf(a, b) == Len(a) <= Len(b) /\ a = SubSeq(b, 1, Len(a))

\* C27: get_next_ring_item yields the ring items of the run's .evt files file
\* by file in the order of the file names, each once and in its order within
\* the file, going to the next file at the end of the active one; once every
\* file is exhausted it returns None, on that call and on every later call
C27_StackYieldsItemsInFileOrder ==
  stack_pc \in {"open", "panicked"} =>
    /\ IsPrefixOf(Yielded(Len(returned)), RunItemsFrom(1))
    /\ \A i \in 1..Len(returned) :
         returned[i] = OkR(None) =>
           /\ Yielded(i) = RunItemsFrom(1)
           /\ \A j \in i..Len(returned) : returned[j] = OkR(None)

\* both files gave an item, and two calls after the last item returned None
C27_Witness ==
  /\ Len(returned) >= 4
  /\ returned[1] = OkR(Some(<<1, 1>>))
  /\ returned[2] = OkR(Some(<<2, 1>>))
  /\ returned[3] = OkR(None)
  /\ returned[4] = OkR(None)


\* a builder and the events it returned
Built(cur, fs, evs) == [cur |-> cur, fs |-> fs, events |-> evs]

IsOutOfOrder(r) == r.tag = "Err" /\ r.err[1] = "EventOutOfOrder"

\* the frames of a sequence that append_frame does not reject as out of
\* order when they are given to builder b one after the other
RECURSIVE Accepted(_, _)
Accepted(b, frames) ==
  IF frames = <<>> THEN <<>>
  ELSE LET r == AppendFrame(b.cur, b.fs, Head(frames))
           after == Built(r.cur, r.fs, b.events \o Emitted(r.ret))
       IN (IF IsOutOfOrder(r.ret) THEN <<>> ELSE <<Head(frames)>>)
          \o Accepted(after, Tail(frames))

\* the builder after the frames were given to builder b one after the other
RECURSIVE BuiltFrom(_, _)
BuiltFrom(b, frames) ==
  IF frames = <<>> THEN b
  ELSE LET r == AppendFrame(b.cur, b.fs, Head(frames))
       IN BuiltFrom(Built(r.cur, r.fs, b.events \o Emitted(r.ret)), Tail(frames))

NewBuilder == Built(None, <<>>, <<>>)

\* C28: when append_frame fails with EventOutOfOrder the builder's state is
\* unchanged: current_event_id and frame_stack are as before the call and the
\* offending frame is not added, so the builder and the events it returns are
\* those of a builder that was given the same frames without the rejected ones
C28_OutOfOrderLeavesBuilderUnchanged ==
  /\ [](Built(current_event_id, frame_stack, events)
          = BuiltFrom(NewBuilder, Accepted(NewBuilder, fed)))
  /\ [][fed' /= fed /\ IsOutOfOrder(ret')
          => UNCHANGED <<current_event_id, frame_stack, events>>]_vars

\* a frame was rejected as out of order, and a later frame of a greater id
\* made the builder return an event
C28_Witness ==
  /\ op = "append_frame"
  /\ Len(Accepted(NewBuilder, fed)) < Len(fed) - 1
  /\ \E k \in 1..(Len(fed) - 1) :
       /\ IsOutOfOrder(AppendFrame(BuiltFrom(NewBuilder, SubSeq(fed, 1, k - 1)).cur,
                                   BuiltFrom(NewBuilder, SubSeq(fed, 1, k - 1)).fs,
                                   fed[k]).ret)
       /\ fed[Len(fed)].event_id > fed[k].event_id
  /\ ret.tag = "Ok" /\ IsSome(ret.val)


\* step x of process_run was completed for the run of log r
Did(r, x) == \E k \in 1..Len(r.done) : r.done[k] = x

\* process_run failed for the run of log r
RunFailed(r) == r.result = "err"

\* process_subset returned the error of the run at place k of its log, and
\* handled no run after it
ReturnedAt(k) ==
  /\ subset_worker.result = "err"
  /\ k = Len(subset_worker.runs)
  /\ \A j \in 1..Len(subset_worker.skipped) :
       subset_worker.skipped[j] < subset_worker.runs[k].run

\* the steps process_run completes before the merger has no more frames
EarlyFaults == {"copy", "open", "evt", "merger", "loop"}

\* C29: when process_run fails for a run of a worker's subset, process_subset
\* returns that error at once: no later run of the subset is processed, and
\* for the failed run neither the final event flush nor HDFWriter::close nor
\* the final 1.0 progress message happens
C29_FailedRunEndsSubset ==
  \A k \in 1..Len(subset_worker.runs) :
    RunFailed(subset_worker.runs[k]) =>
      /\ ReturnedAt(k)
      /\ ~Did(subset_worker.runs[k], "flush")
      /\ ~Did(subset_worker.runs[k], "close")
      /\ ~Did(subset_worker.runs[k], "final")

\* C29, amended: when process_run fails for a run of a worker's subset,
\* process_subset returns that error at once and no later run of the subset
\* is processed; when the failure comes before the merger has no more frames,
\* neither the final event flush nor HDFWriter::close nor the final 1.0
\* message happens for the run; a failure to write the flushed event or to
\* close comes after the flush, a failure of the final message after the
\* close, and a failure to delete the copied files after all three
C29_FailedRunEndsSubsetEarly ==
  \A k \in 1..Len(subset_worker.runs) :
    LET r == subset_worker.runs[k]
    IN RunFailed(r) =>
         /\ ReturnedAt(k)
         /\ r.fault \in EarlyFaults =>
              ~Did(r, "flush") /\ ~Did(r, "close") /\ ~Did(r, "final")
         /\ r.fault \in {"write_final", "close"} =>
              Did(r, "flush") /\ ~Did(r, "close") /\ ~Did(r, "final")
         /\ r.fault = "final" => Did(r, "flush") /\ Did(r, "close") /\ ~Did(r, "final")
         /\ r.fault = "delete" => Did(r, "flush") /\ Did(r, "close") /\ Did(r, "final")

\* the second of three runs failed in the GET loop after the first was
\* processed, and the third was never started
C29_Witness ==
  /\ Len(subset_worker.subset) = 3
  /\ Len(subset_worker.runs) = 2
  /\ subset_worker.runs[1].result = "ok"
  /\ subset_worker.runs[2].fault = "loop"
  /\ subset_worker.runs[2].result = "err"
  /\ subset_worker.result = "err"
  /\ subset_worker.pos = 2


\* the GUI thread took a turn of the loop of poll_messages in this step
PollTurn == gui.pc = "poll" /\ gui' /= gui /\ gui'.sent = gui.sent

\* C30: in the GUI, across any interleaving of worker sends, render ticks,
\* workers ending and being joined, and repeated clicks on Run with changed
\* configurations, every WorkerStatus drained by poll_messages carries a
\* worker_id that is a valid index into worker_statuses when it is received,
\* and each poll_messages call ends as soon as the channel is empty
C30_PolledStatusHasValidIndex ==
  [][PollTurn =>
       IF worker_channel = <<>>
       THEN gui'.pc = "controls" /\ gui'.worker_statuses = gui.worker_statuses
       ELSE /\ Head(worker_channel).worker_id < Len(gui.worker_statuses)
            /\ gui'.worker_statuses[Head(worker_channel).worker_id + 1] = Head(worker_channel)
            /\ worker_channel' = Tail(worker_channel)
            /\ gui'.pc = "poll"]_vars

\* after a second click on Run that started fewer workers than the first,
\* a status sent by a worker of the second click was received
C30_Witness ==
  /\ Len(gui.starts) = 2
  /\ gui.starts[2] < gui.starts[1]
  /\ \E k \in 1..Len(gui.worker_statuses) : gui.worker_statuses[k].progress = 1
  /\ gui.pc = "controls"


====
